---- MODULE Spec2Model ----
(***************************************************************************)
(* A model of the DiMark optimization controller                           *)
(* (apps/analytics/app/services/optimization): the action executor, the    *)
(* decision engine with its guardrails, and the outcome verifier, over the *)
(* relational store they share.                                            *)
(*                                                                         *)
(* The store is PostgreSQL at READ COMMITTED (settings.DATABASE_URL,       *)
(* db.SessionLocal with autoflush off): a statement sees the rows that     *)
(* are committed when it runs; an INSERT whose unique key is held by an    *)
(* uncommitted row of another transaction waits for that transaction and   *)
(* raises IntegrityError once it has committed.                            *)
(*                                                                         *)
(* Money is counted in cents, confidences and accuracy scores in 1/10000,  *)
(* time in ticks of which TicksPerHour make an hour.                       *)
(***************************************************************************)
EXTENDS Integers, Sequences, FiniteSets, TLC

VARIABLES
    now,                \* the wall clock, in ticks
    dry_run,            \* ActionExecutor.dry_run
    proposals,          \* committed optimization_proposals rows, by id
    executions,         \* committed executions rows
    execution_actions,  \* committed execution_actions rows
    platform_calls,     \* adapter operations issued so far
    next_execution_id,  \* uuid4 source of Execution.id
    pc,                 \* per session: where its execute_proposal call stands
    call,               \* per session: the call in progress
    calls,              \* per session: calls started so far
    uncommitted,        \* per session: the Execution row flushed, not yet committed
    returned,           \* the ExecutionRecords returned so far
    clock_steps,        \* how often the clock has been advanced
    settings,           \* app.settings.settings, as the environment sets it
    snapshot_count,     \* channel_snapshots rows of the campaign
    ingested,           \* how many of them arrived since the start
    ctx,                \* what the snapshots and KPI history hold
    methods,            \* optimization_methods rows, by name
    engine_results,     \* the EngineResults returned so far, oldest first
    learnings,          \* committed optimization_learnings rows
    next_learning_id,   \* uuid4 source of OptimizationLearning.id
    vpc,                \* per session: where its verify_proposal call stands
    vcall,              \* per session: the verify_proposal call in progress
    vcalls,             \* per session: verify_proposal calls started so far
    verifications,      \* the VerificationResults returned so far
    mpc,                \* where the monitor's run_cycle stands
    cycle,              \* what the cycle in progress has noted
    batch,              \* the proposals execute_batch has still to execute
    vbatch,             \* the proposals verify_batch has still to visit
    monitor_runs,       \* committed monitor_runs rows, oldest first
    monitor_calls,      \* how the run_cycle calls ended, oldest first
    registry,           \* the names of the registered methods, in order
    metric_rows,        \* committed batches of raw_metrics, derived_kpis and
                        \* trend_indicators rows
    tx_rows,            \* per session: batches flushed, not yet committed
    tx_invalid,         \* per session: a flush failed and the session awaits
                        \* rollback()
    _created,           \* DryRunExecutor._created: the plan cached per key
    meta_objects,       \* the campaigns and ad sets the Meta account holds
    create_calls,       \* the create_campaign calls and their results,
                        \* oldest first
    agent_session,      \* the committed agent_sessions row
    agent_decisions,    \* committed act AgentDecision rows, by id
    next_decision_id,   \* uuid4 source of AgentDecision.id
    tool_runs,          \* the runs of tool handlers, oldest first
    model_calls,        \* llm.create_message calls made so far
    agent_req           \* per session: the agent request in progress

execVars == <<dry_run, executions, execution_actions, platform_calls,
              next_execution_id, pc, call, calls, uncommitted, returned>>

engineVars == <<settings, snapshot_count, ingested, ctx, methods,
                engine_results, registry>>

verifyVars == <<learnings, next_learning_id, vpc, vcall, vcalls, verifications>>

monitorVars == <<mpc, cycle, batch, vbatch, monitor_runs, monitor_calls>>

txVars == <<metric_rows, tx_rows, tx_invalid>>

adapterVars == <<_created, meta_objects, create_calls>>

\* the state of the optimization controller
controllerVars == <<now, clock_steps, proposals, execVars, engineVars,
                    verifyVars, monitorVars, txVars>>

\* the state outside the optimization controller
agentVars == <<agent_session, agent_decisions, next_decision_id, tool_runs,
               model_calls, agent_req>>

outsideVars == <<adapterVars, agentVars>>

vars == <<controllerVars, outsideVars>>

----------------------------------------------------------------------------
(* Bounds *)

\* calls of execute_proposal one session makes
MaxCalls == 2

\* proposals in the store of the executor's specification
NumExecProposals == 1

----------------------------------------------------------------------------
(* Shared vocabulary *)

Sessions == {"A", "B"}

Channels == <<"meta", "google">>

ChannelSet == {Channels[i] : i \in 1..Len(Channels)}

NoTime == -1

NoId == 0

EmptyDict == [c \in {} |-> 0]

\* a JSON object that may be absent from a payload
Absent == [present |-> FALSE, items |-> EmptyDict]

Dict(f) == [present |-> TRUE, items |-> f]

\* dict.items() order: the keys of d in the order of Channels
RECURSIVE KeysFrom(_, _)
KeysFrom(d, i) ==
    IF i > Len(Channels) THEN <<>>
    ELSE IF Channels[i] \in DOMAIN d
         THEN <<Channels[i]>> \o KeysFrom(d, i + 1)
         ELSE KeysFrom(d, i + 1)

Keys(d) == KeysFrom(d, 1)

SeqToSet(s) == {s[i] : i \in 1..Len(s)}

\* an action_payload: the keys the executor and the guardrails read
Payload(pl, na, red, ac) ==
    [platform |-> pl, new_allocations |-> na, reductions |-> red,
     affected_channels |-> ac]

----------------------------------------------------------------------------
(* Settings *)

OPTIMIZATION_AUTO_APPROVE_THRESHOLD == 8500

OPTIMIZATION_MAX_PROPOSALS_PER_HOUR == 3

OPTIMIZATION_MAX_BUDGET_CHANGE_PCT == 2000

OPTIMIZATION_MIN_CHANNEL_FLOOR_PCT == 500

OPTIMIZATION_DEFAULT_COOLDOWN_MINUTES == 60

OPTIMIZATION_VERIFICATION_DELAY_HOURS == 24

\* ticks of the clock in one hour
TicksPerHour == 2

\* advances of the clock in one behaviour
MaxClockSteps == 2

\* the defaults of class Settings
DefaultSettings ==
    [max_per_hour |-> OPTIMIZATION_MAX_PROPOSALS_PER_HOUR,
     max_change_pct |-> OPTIMIZATION_MAX_BUDGET_CHANGE_PCT]

\* Settings reads the environment: the defaults, a stricter rate limit, a
\* stricter budget change limit
SettingsChoices ==
    {DefaultSettings,
     [DefaultSettings EXCEPT !.max_per_hour = 1],
     [DefaultSettings EXCEPT !.max_change_pct = 1000]}

CooldownTicks == (OPTIMIZATION_DEFAULT_COOLDOWN_MINUTES * TicksPerHour) \div 60

----------------------------------------------------------------------------
(* The SQLAlchemy session *)

\* db.commit(): whatever the session has flushed becomes durable
Commit(s) ==
    /\ metric_rows' = metric_rows \cup tx_rows[s]
    /\ tx_rows' = [tx_rows EXCEPT ![s] = {}]
    /\ UNCHANGED tx_invalid

\* db.rollback(): whatever the session has flushed is discarded
Rollback(s) ==
    /\ tx_rows' = [tx_rows EXCEPT ![s] = {}]
    /\ UNCHANGED <<metric_rows, tx_invalid>>

----------------------------------------------------------------------------
(* ActionExecutor *)

PLATFORM_ACTIONS == {"budget_reallocation", "pause_channel", "resume_channel"}

\* advisory actions that take in every other action_type
ADVISORY_ACTIONS_Open == {"creative_refresh", "scale_channel"}

ADVISORY_ACTIONS == {"creative_refresh"}

NoResult == [kind |-> "none", execution_id |-> NoId, success |-> FALSE]

NoExecution == [id |-> NoId, proposal |-> 0, idempotency_key |-> 0,
                platform |-> "", status |-> ""]

Idle == [proposal |-> 0, force |-> FALSE, n |-> 0, seen_status |-> ""]

\* idempotency_key = f"opt-proposal-{proposal.id}": one key per proposal id
IdempotencyKey(p) == p

\* a status gate that also lets a pending proposal through
StatusGateOpenPending(force, status) ==
    force \/ status \in {"approved", "auto_approved", "pending"}

\* the status gate of execute_proposal
StatusGateOpen(force, status) ==
    force \/ status \in {"approved", "auto_approved"}

\* an idempotency check that finds nothing
ExistingExecutionNone(s, key) == {}

\* select(Execution).where(idempotency_key == key): the committed rows and
\* the session's own
ExistingExecution(s, key) ==
    {e \in executions : e.idempotency_key = key}
        \cup (IF uncommitted[s].id # NoId /\ uncommitted[s].idempotency_key = key
              THEN {uncommitted[s]} ELSE {})

\* an executions table without the unique constraint
UniqueViolationNever(key) == FALSE

\* UniqueConstraint("idempotency_key"): a committed row already holds key
UniqueViolation(key) ==
    \E e \in executions : e.idempotency_key = key

\* the INSERT waits while another transaction holds key uncommitted
InsertBlocked(s, key) ==
    \E t \in Sessions \ {s} :
        uncommitted[t].id # NoId /\ uncommitted[t].idempotency_key = key

\* Platform(payload.get("platform", "meta")), META on ValueError
PlatformOf(payload) ==
    IF payload.platform \in {"meta", "google", "linkedin"}
    THEN payload.platform ELSE "meta"

\* get_platform_adapter raises NotImplementedError for a real adapter
\* other than Meta's
AdapterRaises(payload) ==
    ~dry_run /\ PlatformOf(payload) # "meta"

\* a dispatch that stops after its first sub-operation
SubActionsFirstOnly(proposal) ==
    IF proposal.action_type = "budget_reallocation"
          /\ Len(Keys(proposal.payload.new_allocations.items)) > 0
    THEN <<[op |-> "update_budget",
            channel |-> Keys(proposal.payload.new_allocations.items)[1]]>>
    ELSE <<>>

\* the sub-operations of a platform action, in payload iteration order
SubActions(proposal) ==
    IF proposal.action_type = "budget_reallocation"
    THEN [i \in 1..Len(Keys(proposal.payload.new_allocations.items)) |->
            [op |-> "update_budget",
             channel |-> Keys(proposal.payload.new_allocations.items)[i]]]
    ELSE IF proposal.action_type = "pause_channel"
    THEN [i \in 1..Len(proposal.payload.affected_channels) |->
            [op |-> "pause_campaign",
             channel |-> proposal.payload.affected_channels[i]]]
    ELSE IF proposal.action_type = "resume_channel"
    THEN [i \in 1..Len(proposal.payload.affected_channels) |->
            [op |-> "resume_campaign",
             channel |-> proposal.payload.affected_channels[i]]]
    ELSE <<>>

\* an overall_success that one succeeding sub-action is enough for
OverallSuccessAny(subs, ok) == \E i \in 1..Len(subs) : ok[i]

\* overall_success: every sub-action succeeded
OverallSuccess(subs, ok) == \A i \in 1..Len(subs) : ok[i]

\* the audit trail: the Execution and ExecutionAction rows committed
AuditRows ==
    {<<"execution", e.id>> : e \in executions}
        \cup {<<"action", r>> : r \in execution_actions}

\* the ExecutionRecord a call returns, with the call it answers and the
\* number of audit rows and adapter operations there are when it returns
Return(s, c, rec, rows, ops) ==
    returned' = returned \cup
        {[session |-> s, n |-> c.n, proposal |-> c.proposal,
          force |-> c.force, seen_status |-> c.seen_status,
          success |-> rec.success, execution_id |-> rec.execution_id,
          error |-> rec.error,
          rows |-> Cardinality(rows), ops |-> Cardinality(ops)]}

\* an except branch that rolls back and returns the failure record without
\* recording the proposal failed
RecordFailedUnrecorded(s, p, error_type) ==
    /\ UNCHANGED proposals
    /\ uncommitted' = [uncommitted EXCEPT ![s] = NoExecution]
    /\ Rollback(s)
    /\ Return(s, call[s],
              [success |-> FALSE, execution_id |-> NoId, error |-> error_type],
              AuditRows, platform_calls)
    /\ pc' = [pc EXCEPT ![s] = "idle"]
    /\ call' = [call EXCEPT ![s] = Idle]

\* the except branch of execute_proposal: rollback, reload the proposal,
\* record it failed, commit
RecordFailed(s, p, error_type) ==
    /\ proposals' = [proposals EXCEPT
          ![p].status = "failed",
          ![p].execution_result =
              [kind |-> "error", execution_id |-> NoId, success |-> FALSE]]
    /\ uncommitted' = [uncommitted EXCEPT ![s] = NoExecution]
    /\ Rollback(s)
    /\ Return(s, call[s],
              [success |-> FALSE, execution_id |-> NoId, error |-> error_type],
              AuditRows, platform_calls)
    /\ pc' = [pc EXCEPT ![s] = "idle"]
    /\ call' = [call EXCEPT ![s] = Idle]

\* execute_proposal up to the dispatch: load, status gate, idempotency check,
\* and the unknown-action_type branch
execute_proposal(s, p, force) ==
    /\ pc[s] = "idle"
    /\ calls' = [calls EXCEPT ![s] = @ + 1]
    /\ LET c == [proposal |-> p, force |-> force, n |-> calls[s] + 1,
                 seen_status |-> proposals[p].status]
           ret(rec) == Return(s, c, rec, AuditRows, platform_calls)
           existing == ExistingExecution(s, IdempotencyKey(p))
       IN  IF ~StatusGateOpen(force, proposals[p].status)
           THEN /\ ret([success |-> FALSE, execution_id |-> NoId,
                        error |-> "status"])
                /\ UNCHANGED <<proposals, pc, call, txVars>>
           ELSE IF existing # {}
           THEN /\ ret([success |-> TRUE,
                        execution_id |-> (CHOOSE e \in existing : TRUE).id,
                        error |-> ""])
                /\ UNCHANGED <<proposals, pc, call, txVars>>
           ELSE IF proposals[p].action_type \notin
                       (ADVISORY_ACTIONS \cup PLATFORM_ACTIONS)
           THEN /\ ret([success |-> FALSE, execution_id |-> NoId,
                        error |-> "Unknown action_type"])
                /\ proposals' = [proposals EXCEPT
                      ![p].status = "failed",
                      ![p].execution_result =
                          [kind |-> "error", execution_id |-> NoId,
                           success |-> FALSE]]
                /\ Commit(s)
                /\ UNCHANGED <<pc, call>>
           ELSE /\ pc' = [pc EXCEPT ![s] = "execute"]
                /\ call' = [call EXCEPT ![s] = c]
                /\ UNCHANGED <<proposals, returned, txVars>>
    /\ UNCHANGED <<now, clock_steps, dry_run, executions, execution_actions,
                   platform_calls, next_execution_id, uncommitted, engineVars, verifyVars>>

\* _execute_advisory / _execute_platform_action up to db.flush(): build the
\* adapter, add the Execution row and flush it
flush_execution(s) ==
    /\ pc[s] = "execute"
    /\ LET p == call[s].proposal
           key == IdempotencyKey(p)
           advisory == proposals[p].action_type \in ADVISORY_ACTIONS
       IN  IF ~advisory /\ AdapterRaises(proposals[p].payload)
           THEN /\ RecordFailed(s, p, "NotImplementedError")
                /\ UNCHANGED next_execution_id
           ELSE /\ ~InsertBlocked(s, key)
                /\ next_execution_id' = next_execution_id + 1
                /\ IF UniqueViolation(key)
                   THEN RecordFailed(s, p, "IntegrityError")
                   ELSE /\ uncommitted' = [uncommitted EXCEPT ![s] =
                              [id |-> next_execution_id, proposal |-> p,
                               idempotency_key |-> key,
                               platform |-> IF advisory THEN "advisory"
                                            ELSE PlatformOf(proposals[p].payload),
                               status |-> IF advisory THEN "completed"
                                          ELSE "running"]]
                        /\ pc' = [pc EXCEPT ![s] = "flushed"]
                        /\ UNCHANGED <<proposals, returned, call, txVars>>
    /\ UNCHANGED <<now, clock_steps, dry_run, executions, execution_actions,
                   platform_calls, calls, engineVars, verifyVars>>

\* the rest of _execute_advisory / _execute_platform_action and the commit
\* of execute_proposal: ok[i] is the outcome of the i-th adapter call
dispatch_and_commit(s) ==
    /\ pc[s] = "flushed"
    /\ \E ok \in [1..Len(SubActions(proposals[call[s].proposal])) -> BOOLEAN] :
       LET p == call[s].proposal
           e == uncommitted[s]
           advisory == proposals[p].action_type \in ADVISORY_ACTIONS
           subs == SubActions(proposals[p])
           success == advisory \/ OverallSuccess(subs, ok)
           rows == IF advisory
                   THEN {[execution_id |-> e.id,
                          action_type |-> proposals[p].action_type,
                          channel |-> "advisory", status |-> "completed"]}
                   ELSE {[execution_id |-> e.id, action_type |-> subs[i].op,
                          channel |-> subs[i].channel,
                          status |-> IF ok[i] THEN "completed" ELSE "failed"]
                         : i \in 1..Len(subs)}
           issued == {[session |-> s, n |-> call[s].n, proposal |-> p,
                       i |-> i, op |-> subs[i].op,
                       channel |-> subs[i].channel,
                       ok |-> ok[i]] : i \in 1..Len(subs)}
       IN  /\ platform_calls' = platform_calls \cup issued
           /\ executions' = executions \cup
                 {[e EXCEPT !.status = IF success THEN "completed" ELSE "failed"]}
           /\ execution_actions' = execution_actions \cup rows
           /\ proposals' = [proposals EXCEPT
                 ![p].status = IF success THEN "executed" ELSE "failed",
                 ![p].executed_at = now,
                 ![p].execution_result =
                     [kind |-> IF advisory THEN "advisory" ELSE "result",
                      execution_id |-> e.id, success |-> success]]
           /\ Return(s, call[s],
                     [success |-> success, execution_id |-> e.id,
                      error |-> IF success THEN "" ELSE "platform"],
                     AuditRows \cup {<<"execution", e.id>>}
                         \cup {<<"action", r>> : r \in rows},
                     platform_calls \cup issued)
    /\ uncommitted' = [uncommitted EXCEPT ![s] = NoExecution]
    /\ Commit(s)
    /\ pc' = [pc EXCEPT ![s] = "idle"]
    /\ call' = [call EXCEPT ![s] = Idle]
    /\ UNCHANGED <<now, clock_steps, dry_run, next_execution_id, calls,
                   engineVars, verifyVars>>

----------------------------------------------------------------------------
(* Arithmetic of the methods and the engine *)

Abs(x) == IF x < 0 THEN -x ELSE x

\* round(n / d) to the nearest integer, ties to even, for n >= 0 and d > 0
Round(n, d) ==
    LET q == n \div d
        r == n % d
    IN  IF 2 * r < d THEN q
        ELSE IF 2 * r > d THEN q + 1
        ELSE IF q % 2 = 0 THEN q ELSE q + 1

MaxOf(S) == CHOOSE x \in S : \A y \in S : y <= x

RECURSIVE SumOver(_, _)
SumOver(f, S) ==
    IF S = {} THEN 0
    ELSE LET c == CHOOSE x \in S : TRUE
         IN  f[c] + SumOver(f, S \ {c})

----------------------------------------------------------------------------
(* Guardrails *)

Check(rule_name, passed) == [rule_name |-> rule_name, passed |-> passed]

\* check_budget_change_limit: proposed is new_allocations or absent (None)
check_budget_change_limit(current, proposed, max_change_pct) ==
    IF ~proposed.present THEN Check("budget_change_limit", TRUE)
    ELSE LET prop(ch) == IF ch \in DOMAIN proposed.items
                         THEN proposed.items[ch] ELSE current[ch]
             violations ==
                 {ch \in DOMAIN current :
                     /\ current[ch] # 0
                     /\ 10000 * Abs(prop(ch) - current[ch])
                            > max_change_pct * current[ch]}
         IN  Check("budget_change_limit", violations = {})

\* check_minimum_channel_floor
check_minimum_channel_floor(proposed, min_floor_pct) ==
    IF ~proposed.present THEN Check("minimum_channel_floor", TRUE)
    ELSE LET total == SumOver(proposed.items, DOMAIN proposed.items)
             violations ==
                 {ch \in DOMAIN proposed.items :
                     /\ proposed.items[ch] > 0
                     /\ 10000 * proposed.items[ch] < min_floor_pct * total}
         IN  Check("minimum_channel_floor", total <= 0 \/ violations = {})

\* check_rate_limit: recent_times is a bag of created_at values, at its clock
check_rate_limit(recent_times, at, max_per_hour) ==
    LET recent_count ==
            Cardinality({i \in DOMAIN recent_times :
                            recent_times[i] >= at - TicksPerHour})
    IN  Check("rate_limit", ~(recent_count >= max_per_hour))

\* a cooldown that never blocks
check_cooldown_never(last_fired_at, at, cooldown) == Check("cooldown", TRUE)

\* check_cooldown: last_fired_at is NoTime when the method never fired
check_cooldown(last_fired_at, at, cooldown) ==
    IF last_fired_at = NoTime THEN Check("cooldown", TRUE)
    ELSE Check("cooldown", ~(at - last_fired_at < cooldown))

----------------------------------------------------------------------------
(* Optimization methods *)

DEFAULT_CPA_SPIKE_THRESHOLD == 3000

DEFAULT_MIN_CHANNEL_SPEND == 10000

DEFAULT_BUDGET_REDUCTION_PCT == 2000

DEFAULT_EFFICIENCY_SPREAD_THRESHOLD == 2000

DEFAULT_MIN_CHANNELS == 2

DEFAULT_CTR_DECLINE_THRESHOLD == 1500

NoEvaluation ==
    [should_fire |-> FALSE, method |-> "", confidence |-> 0, action_type |-> "",
     action_payload |-> Payload("", Absent, Absent, <<>>)]

\* the MethodContext the engine builds. alloc: the spend of each channel's
\* latest snapshot (channel_data totals and current_allocations);
\* cpa_change: the channel's CPA against its previous CPA, or against the
\* campaign's, 0 where it has none; efficiency: the channels' efficiency_index
\* KPI, which KPICalculator._calculate_kpis does not compute; ctr_decline:
\* the magnitude of a declining CTR trend of a channel with enough
\* impressions, 0 where there is none; kpis: the campaign-level ROAS (in
\* 1/100), CPA (in cents) and CTR (in 1/10000), 0 where the KPI is missing
Context(alloc, cpa_change, ctr_decline, kpis) ==
    [alloc |-> alloc, cpa_change |-> cpa_change, efficiency |-> Absent,
     ctr_decline |-> ctr_decline, kpis |-> kpis]

Kpis(roas, cpa, ctr) == [roas |-> roas, cpa |-> cpa, ctr |-> ctr]

\* CPASpikeMethod.check_preconditions and evaluate
CPASpikeMethod(c) ==
    LET affected == {ch \in DOMAIN c.alloc :
                        /\ c.alloc[ch] >= DEFAULT_MIN_CHANNEL_SPEND
                        /\ c.cpa_change[ch] >= DEFAULT_CPA_SPIKE_THRESHOLD}
        reduced == {ch \in affected : c.alloc[ch] > 0}
        reductions == [ch \in reduced |->
                          Round(c.alloc[ch] * DEFAULT_BUDGET_REDUCTION_PCT, 10000)]
        max_change == MaxOf({c.cpa_change[ch] : ch \in affected})
        confidence == IF 6000 + max_change < 9500
                      THEN 6000 + max_change ELSE 9500
    IN  IF affected = {} \/ reduced = {} THEN NoEvaluation
        ELSE [should_fire |-> TRUE, method |-> "cpa_spike",
              confidence |-> confidence, action_type |-> "budget_reallocation",
              action_payload |->
                  Payload("", Absent, Dict(reductions),
                          SelectSeq(Channels, LAMBDA ch : ch \in affected))]

\* BudgetReallocationMethod.check_preconditions and evaluate, for fewer than
\* eight channels (tier_size 1)
BudgetReallocationMethod(c) ==
    IF Cardinality(DOMAIN c.alloc) < DEFAULT_MIN_CHANNELS
       \/ ~c.efficiency.present
       \/ Cardinality(DOMAIN c.efficiency.items) < DEFAULT_MIN_CHANNELS
    THEN NoEvaluation
    ELSE LET eff == c.efficiency.items
             best == CHOOSE ch \in DOMAIN eff :
                        \A o \in DOMAIN eff : eff[o] <= eff[ch]
             worst == CHOOSE ch \in DOMAIN eff :
                        \A o \in DOMAIN eff : eff[ch] <= eff[o]
             spread == eff[best] - eff[worst]
             total_budget == SumOver(c.alloc, DOMAIN c.alloc)
             move_amount == Round(total_budget * 1000, 10000)
             lowered == IF c.alloc[worst] - move_amount > 0
                        THEN c.alloc[worst] - move_amount ELSE 0
             new_allocations ==
                 [ch \in DOMAIN c.alloc |->
                     IF ch = best
                     THEN (IF ch = worst THEN lowered ELSE c.alloc[ch])
                              + move_amount
                     ELSE IF ch = worst THEN lowered ELSE c.alloc[ch]]
             relative == Round(spread * 10000, eff[best])
             confidence == IF 5000 + relative < 9000 THEN 5000 + relative
                           ELSE 9000
         IN  IF eff[best] <= 0
                \/ spread * 10000 < DEFAULT_EFFICIENCY_SPREAD_THRESHOLD * eff[best]
                \/ total_budget <= 0
             THEN NoEvaluation
             ELSE [should_fire |-> TRUE, method |-> "budget_reallocation",
                   confidence |-> confidence,
                   action_type |-> "budget_reallocation",
                   action_payload |->
                       Payload("", Dict(new_allocations), Absent, <<>>)]

\* CreativeFatigueMethod.check_preconditions and evaluate
CreativeFatigueMethod(c) ==
    LET fatigued == {ch \in DOMAIN c.alloc :
                        c.ctr_decline[ch] >= DEFAULT_CTR_DECLINE_THRESHOLD}
        max_decline == MaxOf({c.ctr_decline[ch] : ch \in fatigued})
        confidence == IF 4000 + max_decline < 8500
                      THEN 4000 + max_decline ELSE 8500
    IN  IF fatigued = {} THEN NoEvaluation
        ELSE [should_fire |-> TRUE, method |-> "creative_fatigue",
              confidence |-> confidence, action_type |-> "creative_refresh",
              action_payload |-> Payload("", Absent, Absent, <<>>)]

\* build_default_registry: the three methods, in registration order
build_default_registry == <<"cpa_spike", "budget_reallocation",
                            "creative_fatigue">>

\* a registered method whose check_preconditions or evaluate raises
RaisingMethod == "raising"

\* a subclass of CPASpikeMethod registered under a name of its own: a second
\* method that emits action_type budget_reallocation
SharedActionMethod == "cpa_spike_custom"

\* method.evaluate(context) of the registered method of that name
Evaluate(name, c) ==
    CASE name = "cpa_spike" -> CPASpikeMethod(c)
      [] name = "budget_reallocation" -> BudgetReallocationMethod(c)
      [] name = "creative_fatigue" -> CreativeFatigueMethod(c)
      [] name = SharedActionMethod ->
            [CPASpikeMethod(c) EXCEPT !.method =
                IF @ = "cpa_spike" THEN SharedActionMethod ELSE @]

\* MethodRegistry.evaluate_all raises: the loop over the methods has no
\* try, so the first method that raises ends it
EvaluateAllRaises(reg) == \E i \in DOMAIN reg : reg[i] = RaisingMethod

\* MethodRegistry.evaluate_all when no method raises: the evaluations that
\* fire, in registration order
EvaluationsOf(reg, c) ==
    SelectSeq([i \in DOMAIN reg |-> Evaluate(reg[i], c)],
              LAMBDA e : e.should_fire)

evaluate_all(c) == EvaluationsOf(registry, c)

----------------------------------------------------------------------------
(* The data of the campaign *)

PerChannel(m, g) == [ch \in ChannelSet |-> IF ch = "meta" THEN m ELSE g]

\* nothing fires
QuietContext == Context(PerChannel(200000, 200000), PerChannel(0, 0),
                        PerChannel(0, 0), Kpis(300, 2500, 200))

\* what the snapshots can show: nothing; a CPA spike on a channel that
\* spends $100.03; a CPA spike on both channels; a CTR decline; a CPA spike
\* and a steep CTR decline
Contexts ==
    {QuietContext,
     Context(PerChannel(10003, 200000), PerChannel(3000, 0), PerChannel(0, 0),
             Kpis(120, 4000, 150)),
     Context(PerChannel(200000, 50000), PerChannel(3600, 3100), PerChannel(0, 0),
             Kpis(0, 9000, 50)),
     Context(PerChannel(200000, 200000), PerChannel(0, 0), PerChannel(2000, 0),
             Kpis(450, 1000, 0)),
     Context(PerChannel(200000, 9000), PerChannel(3500, 9000),
             PerChannel(0, 4500), Kpis(0, 0, 80))}

----------------------------------------------------------------------------
(* DecisionEngine *)

\* engine runs in one behaviour
MaxRuns == 2

\* snapshots that arrive in one behaviour
MaxIngests == 1

\* a filter that keeps every evaluation
AllPassedAlways(checks) == TRUE

\* all(c.passed for c in checks)
AllPassed(checks) == \A i \in DOMAIN checks : checks[i].passed

\* a routing that needs more than the threshold
RouteAbove(confidence) ==
    IF confidence > OPTIMIZATION_AUTO_APPROVE_THRESHOLD
    THEN "auto_approved" ELSE "pending"

\* step 7 of run: the execution decision
Route(confidence) ==
    IF confidence >= OPTIMIZATION_AUTO_APPROVE_THRESHOLD
    THEN "auto_approved" ELSE "pending"

\* _adjust_confidence
_adjust_confidence(confidence, snapshots, raw_metric_count) ==
    LET a == IF snapshots < 5 THEN 8 ELSE IF snapshots < 10 THEN 9 ELSE 10
        b == IF raw_metric_count < 10 THEN 85 ELSE 100
        adjusted == Round(confidence * a * b, 1000)
    IN  IF adjusted > 10000 THEN 10000 ELSE IF adjusted < 0 THEN 0 ELSE adjusted

\* _get_last_fired: created_at of the latest proposal of the action_type
_get_last_fired(action_type) ==
    LET fired == {proposals[i].created_at :
                    i \in {j \in DOMAIN proposals :
                             proposals[j].action_type = action_type}}
    IN  IF fired = {} THEN NoTime ELSE MaxOf(fired)

\* step 4 of run for one evaluation: the guardrail checks, in order
GuardrailChecks(e, recent_times) ==
    <<check_rate_limit(recent_times, now, settings.max_per_hour),
      check_cooldown(_get_last_fired(e.action_type), now, CooldownTicks)>>
    \o (IF e.action_type = "budget_reallocation"
        THEN <<check_budget_change_limit(ctx.alloc,
                                         e.action_payload.new_allocations,
                                         settings.max_change_pct),
               check_minimum_channel_floor(e.action_payload.new_allocations,
                                           OPTIMIZATION_MIN_CHANNEL_FLOOR_PCT)>>
        ELSE <<>>)

\* stats_json of a method row nothing was verified for
NoStats == [total_executions |-> 0, successful_executions |-> 0,
            avg_accuracy |-> 0]

\* steps 5 to 7 of run for one passing evaluation
NewProposal(e, checks) ==
    LET confidence == _adjust_confidence(e.confidence, snapshot_count,
                                         5 * snapshot_count)
    IN  [method |-> e.method, action_type |-> e.action_type,
         payload |-> e.action_payload, status |-> Route(confidence),
         confidence |-> confidence, created_at |-> now,
         executed_at |-> NoTime, execution_result |-> NoResult,
         approved_by |-> IF Route(confidence) = "auto_approved"
                         THEN "engine" ELSE "",
         approved_at |-> IF Route(confidence) = "auto_approved"
                         THEN now ELSE NoTime,
         checks |-> checks, allocations |-> ctx.alloc]

\* _ensure_method_row for every evaluation of created
EnsureMethodRows(created) ==
    LET names == {created[i].action_type : i \in DOMAIN created}
    IN  [n \in DOMAIN methods \cup names |->
            IF n \in DOMAIN methods THEN methods[n] ELSE NoStats]

\* MetricsCollector.collect, KPICalculator.compute: five raw_metrics rows
\* per snapshot, and the derived_kpis rows computed from them
MetricBatch(by, id) ==
    IF snapshot_count = 0 THEN {}
    ELSE {[by |-> by, id |-> id, raw_metrics |-> 5 * snapshot_count]}

\* a precondition that lets a campaign without snapshots pass
NoSnapshotsNever(count) == FALSE

\* step 1 of run: snapshot_count == 0
NoSnapshots(count) == count = 0

\* what DecisionEngine.run returns, or that it raised
EngineResult(success, raised, error, checked, created, rejections) ==
    [at |-> now, success |-> success, raised |-> raised, error |-> error,
     snapshot_count |-> snapshot_count, checked |-> checked,
     created |-> created, guardrail_rejections |-> rejections]

\* DecisionEngine.run on session s; closing: the caller closes the session
\* when run is over (get_db), whatever happened
EngineRun(s, closing) ==
    LET collected == MetricBatch("engine", Len(engine_results) + 1)
        pending == IF closing THEN {} ELSE tx_rows[s] \cup collected
    IN
    /\ IF NoSnapshots(snapshot_count)
       THEN \* no snapshots: returned before anything is written
            /\ engine_results' = Append(engine_results,
                  EngineResult(FALSE, FALSE, "No channel snapshots available",
                               <<>>, {}, 0))
            /\ UNCHANGED <<proposals, methods, txVars>>
       ELSE IF EvaluateAllRaises(registry)
       THEN \* a method raises: run raises, after collect, compute and
            \* analyze have flushed their rows
            /\ engine_results' = Append(engine_results,
                  EngineResult(FALSE, TRUE, "Exception", <<>>, {}, 0))
            /\ tx_rows' = [tx_rows EXCEPT ![s] = pending]
            /\ UNCHANGED <<proposals, methods, metric_rows, tx_invalid>>
       ELSE LET evaluations == evaluate_all(ctx)
                one_hour_ago == now - TicksPerHour
                recent_times ==
                    SelectSeq([i \in DOMAIN proposals |-> proposals[i].created_at],
                              LAMBDA t : t >= one_hour_ago)
                checked == [i \in DOMAIN evaluations |->
                               [evaluation |-> evaluations[i],
                                checks |-> GuardrailChecks(evaluations[i],
                                                           recent_times)]]
                passing == SelectSeq(checked, LAMBDA x : AllPassed(x.checks))
                created == [i \in DOMAIN passing |->
                               NewProposal(passing[i].evaluation,
                                           passing[i].checks)]
                inserted == {created[i].action_type : i \in DOMAIN created}
                                \ DOMAIN methods
            IN  \/ \* every flush and the commit succeed
                   /\ proposals' = proposals \o created
                   /\ methods' = EnsureMethodRows(created)
                   /\ engine_results' = Append(engine_results,
                         EngineResult(TRUE, FALSE, "",
                            [i \in DOMAIN checked |->
                                [action_type |->
                                     checked[i].evaluation.action_type,
                                 method |-> checked[i].evaluation.method,
                                 checks |-> checked[i].checks]],
                            Len(proposals) + 1
                                .. Len(proposals) + Len(created),
                            Len(checked) - Len(passing)))
                   /\ metric_rows' = metric_rows \cup tx_rows[s] \cup collected
                   /\ tx_rows' = [tx_rows EXCEPT ![s] = {}]
                   /\ UNCHANGED tx_invalid
                \/ \* _ensure_method_row: between its select and its flush
                   \* another campaign's run commits a row of the same name;
                   \* the flush raises IntegrityError and the transaction is
                   \* rolled back, the session left awaiting rollback()
                   \E rival \in inserted :
                       /\ methods' = [n \in DOMAIN methods \cup {rival} |->
                                         IF n \in DOMAIN methods
                                         THEN methods[n] ELSE NoStats]
                       /\ engine_results' = Append(engine_results,
                             EngineResult(FALSE, TRUE, "IntegrityError",
                                          <<>>, {}, 0))
                       /\ tx_rows' = [tx_rows EXCEPT ![s] = {}]
                       /\ tx_invalid' = [tx_invalid EXCEPT ![s] = ~closing]
                       /\ UNCHANGED <<proposals, metric_rows>>
    /\ UNCHANGED <<now, clock_steps, settings, snapshot_count, ingested, ctx,
                   registry>>

\* the run_optimization endpoint: the engine on a session of its own, closed
\* when the request ends
run ==
    /\ Len(engine_results) < MaxRuns
    /\ EngineRun("A", TRUE)
    /\ UNCHANGED <<execVars, verifyVars>>

\* a new ChannelSnapshot row arrives and with it what the data show
ingest_snapshot(c) ==
    /\ ingested < MaxIngests
    /\ ingested' = ingested + 1
    /\ snapshot_count' = snapshot_count + 1
    /\ ctx' = c
    /\ UNCHANGED <<now, clock_steps, proposals, settings, methods,
                   engine_results, registry, execVars, verifyVars, txVars>>

\* MethodRegistry.register on the registry of the engine: the method is
\* added after those registered before it
register(method) ==
    /\ \A i \in DOMAIN registry : registry[i] # method
    /\ registry' = Append(registry, method)
    /\ UNCHANGED <<now, clock_steps, proposals, settings, snapshot_count,
                   ingested, ctx, methods, engine_results, execVars,
                   verifyVars, txVars>>

\* the clock advances by d ticks
advance(d) ==
    /\ clock_steps' = clock_steps + 1
    /\ now' = now + d
    /\ UNCHANGED <<proposals, execVars, engineVars, verifyVars, txVars>>

----------------------------------------------------------------------------
(* OutcomeVerifier *)

\* verify_proposal calls one session makes
MaxVerifyCalls == 2

NoVerify == [proposal |-> 0, n |-> 0, accuracy |-> 0, has_method |-> FALSE,
             stats |-> NoStats]

VerificationTicks == OPTIMIZATION_VERIFICATION_DELAY_HOURS * TicksPerHour

\* a timing check that never finds it too soon
TooSoonNever(elapsed) == FALSE

\* elapsed < timedelta(hours=verification_window_hours)
TooSoon(elapsed) == elapsed < VerificationTicks

\* an idempotency check that finds no learning
VerifiedLearningsNone(p) == {}

\* select(OptimizationLearning).where(proposal_id == p,
\* verification_status == "verified"): the committed rows
VerifiedLearnings(p) ==
    {l \in learnings : l.proposal_id = p /\ l.verification_status = "verified"}

\* min(1.0, n / d) in 1/10000, rounded to four places
Score(n, d) == IF Round(n * 10000, d) > 10000 THEN 10000 ELSE Round(n * 10000, d)

\* _collect_actual_impact and _compute_accuracy_score
_compute_accuracy_score(action_type, snapshots, kpis) ==
    IF snapshots = 0 THEN 5000
    ELSE IF action_type = "budget_reallocation" /\ kpis.roas > 0
    THEN Score(kpis.roas, 300)
    ELSE IF action_type = "budget_reallocation" /\ kpis.cpa > 0
    THEN Score(3000, IF kpis.cpa > 100 THEN kpis.cpa ELSE 100)
    ELSE IF action_type = "creative_refresh" /\ kpis.ctr > 0
    THEN Score(kpis.ctr, 200)
    ELSE 5000

\* round(n / d) of a quotient held in a binary float, for n >= 0 and d > 0:
\* the nearest integer, and either neighbour where n / d lies halfway, as
\* the float lies a little below or a little above it
RoundFloat(n, d) ==
    LET q == n \div d
        r == n % d
    IN  IF 2 * r < d THEN {q}
        ELSE IF 2 * r > d THEN {q + 1}
        ELSE {q, q + 1}

\* an update of the stats that counts every verification as successful
_update_method_stats_AllSuccessful(stats, accuracy, success) ==
    LET total == stats.total_executions + 1
    IN  {[total_executions |-> total,
          successful_executions |-> stats.successful_executions + 1,
          avg_accuracy |-> avg]
         : avg \in RoundFloat(stats.avg_accuracy * (total - 1) + accuracy,
                              total)}

\* an update of the stats that does not weight the previous average
_update_method_stats_Unweighted(stats, accuracy, success) ==
    LET total == stats.total_executions + 1
    IN  {[total_executions |-> total,
          successful_executions |->
              stats.successful_executions + (IF success THEN 1 ELSE 0),
          avg_accuracy |-> avg]
         : avg \in RoundFloat(stats.avg_accuracy + accuracy, total)}

\* _update_method_stats: the stats it can assign
_update_method_stats(stats, accuracy, success) ==
    LET total == stats.total_executions + 1
    IN  {[total_executions |-> total,
          successful_executions |->
              stats.successful_executions + (IF success THEN 1 ELSE 0),
          avg_accuracy |-> avg]
         : avg \in RoundFloat(stats.avg_accuracy * (total - 1) + accuracy,
                              total)}

\* _collect_actual_impact: the rows it flushes
_collect_actual_impact(p) == MetricBatch("verifier", p)

Verified(s, c, rec) ==
    verifications' = verifications \cup
        {[session |-> s, n |-> c.n, proposal |-> c.proposal,
          success |-> rec.success, error |-> rec.error,
          learning_id |-> rec.learning_id, idempotent |-> rec.idempotent]}

\* verify_proposal up to the idempotency check
verify_proposal(s, p) ==
    /\ vpc[s] = "idle"
    /\ vcalls' = [vcalls EXCEPT ![s] = @ + 1]
    /\ LET c == [NoVerify EXCEPT !.proposal = p, !.n = vcalls[s] + 1]
           existing == VerifiedLearnings(p)
           fail(error) == [success |-> FALSE, error |-> error,
                           learning_id |-> NoId, idempotent |-> FALSE]
       IN  IF proposals[p].status # "executed" \/ proposals[p].executed_at = NoTime
           THEN /\ Verified(s, c, fail("not executed"))
                /\ UNCHANGED <<vpc, vcall>>
           ELSE IF TooSoon(now - proposals[p].executed_at)
           THEN /\ Verified(s, c, fail("pending"))
                /\ UNCHANGED <<vpc, vcall>>
           ELSE IF Cardinality(existing) > 1
           THEN /\ Verified(s, c, fail("MultipleResultsFound"))
                /\ UNCHANGED <<vpc, vcall>>
           ELSE IF existing # {}
           THEN /\ Verified(s, c,
                     [success |-> TRUE, error |-> "",
                      learning_id |-> (CHOOSE l \in existing : TRUE).id,
                      idempotent |-> TRUE])
                /\ UNCHANGED <<vpc, vcall>>
           ELSE /\ vpc' = [vpc EXCEPT ![s] = "learn"]
                /\ vcall' = [vcall EXCEPT ![s] = c]
                /\ UNCHANGED verifications
    /\ UNCHANGED <<now, clock_steps, proposals, learnings, next_learning_id,
                   execVars, engineVars, txVars>>

\* verify_proposal from the measurement to the stats: collect the actual
\* impact, score it, add and flush the learning, load the method row and
\* assign its new stats
load_method(s) ==
    /\ vpc[s] = "learn"
    /\ LET p == vcall[s].proposal
           name == proposals[p].action_type
           accuracy == _compute_accuracy_score(name, snapshot_count, ctx.kpis)
           found == name \in DOMAIN methods
       IN  /\ \E stats \in (IF found
                            THEN _update_method_stats(methods[name], accuracy,
                                                      accuracy >= 5000)
                            ELSE {NoStats}) :
                 vcall' = [vcall EXCEPT ![s] =
                              [@ EXCEPT !.accuracy = accuracy,
                                        !.has_method = found,
                                        !.stats = stats]]
           /\ tx_rows' = [tx_rows EXCEPT ![s] =
                              @ \cup _collect_actual_impact(p)]
    /\ vpc' = [vpc EXCEPT ![s] = "commit"]
    /\ UNCHANGED <<now, clock_steps, proposals, learnings, next_learning_id,
                   vcalls, verifications, methods, metric_rows, tx_invalid,
                   execVars, settings, snapshot_count, ingested, ctx,
                   engine_results, registry>>

\* the commit of verify_proposal: the learning and the method row as the
\* call assigned it become durable
commit_learning(s) ==
    /\ vpc[s] = "commit"
    /\ LET p == vcall[s].proposal
           name == proposals[p].action_type
       IN  /\ learnings' = learnings \cup
                 {[id |-> next_learning_id, proposal_id |-> p,
                   method |-> name, accuracy_score |-> vcall[s].accuracy,
                   verification_status |-> "verified", verified_at |-> now]}
           /\ next_learning_id' = next_learning_id + 1
           /\ methods' = IF vcall[s].has_method /\ name \in DOMAIN methods
                         THEN [methods EXCEPT ![name] = vcall[s].stats]
                         ELSE methods
           /\ Verified(s, vcall[s],
                 [success |-> TRUE, error |-> "",
                  learning_id |-> next_learning_id, idempotent |-> FALSE])
    /\ Commit(s)
    /\ vpc' = [vpc EXCEPT ![s] = "idle"]
    /\ vcall' = [vcall EXCEPT ![s] = NoVerify]
    /\ UNCHANGED <<now, clock_steps, proposals, vcalls, execVars, settings,
                   snapshot_count, ingested, ctx, engine_results, registry>>

----------------------------------------------------------------------------
(* OptimizationMonitor *)

\* monitor cycles in one behaviour
MaxCycles == 3

\* verify_batch(max_age_hours=48)
VERIFY_MAX_AGE_HOURS == 48

\* the session run_cycle is handed
MonitorSession == "A"

NoCycle == [started_at |-> NoTime, run |-> 0, calls_before |-> 0,
            vcalls_before |-> 0, exec_total |-> 0, ver_total |-> 0,
            errors |-> 0]

\* proposals an operator decides on in one behaviour
MaxApprovals == 1

\* the proposals the approval endpoint has decided on
Decided == {i \in DOMAIN proposals : proposals[i].approved_by = "operator"}

\* POST /proposals/{id}/approve: approve or reject, whatever the proposal's
\* status is
approve_proposal(p, action) ==
    /\ proposals' = [proposals EXCEPT
          ![p].status = IF action = "approve" THEN "approved" ELSE "rejected",
          ![p].approved_by = "operator",
          ![p].approved_at = now]
    /\ UNCHANGED <<now, clock_steps, execVars, engineVars, verifyVars,
                   monitorVars, txVars>>

\* the ids of the campaign's proposals, in the order a select returns them
ProposalIdsInOrder == [i \in DOMAIN proposals |-> i]

\* a select of phase 2 that takes the operator's approvals too
AutoApprovedIdsAndApproved ==
    SelectSeq(ProposalIdsInOrder,
              LAMBDA i : /\ proposals[i].status \in {"auto_approved", "approved"}
                         /\ proposals[i].executed_at = NoTime)

\* a select of phase 2 made before the cycle's engine run has committed
AutoApprovedIdsOfEarlierRuns ==
    SelectSeq(ProposalIdsInOrder,
              LAMBDA i : /\ proposals[i].status = "auto_approved"
                         /\ proposals[i].executed_at = NoTime
                         /\ i \notin engine_results[cycle.run].created)

\* the select of phase 2: auto-approved and not yet executed
AutoApprovedIds ==
    SelectSeq(ProposalIdsInOrder,
              LAMBDA i : /\ proposals[i].status = "auto_approved"
                         /\ proposals[i].executed_at = NoTime)

\* the status of the MonitorRun row, from result.errors and the engine's
\* result
MonitorStatus(errors, engine_result) ==
    IF errors = 0 THEN "completed"
    ELSE IF ~engine_result.raised /\ engine_result.success THEN "partial"
    ELSE "failed"

\* phase 1 of run_cycle: observe and decide; an exception of the engine is
\* caught and recorded, the session left as it is
cycle_observe ==
    /\ mpc = "idle"
    /\ EngineRun(MonitorSession, FALSE)
    /\ mpc' = "act"
    /\ cycle' = [NoCycle EXCEPT !.started_at = now,
                                !.run = Len(engine_results) + 1,
                                !.errors = IF engine_results'[Len(engine_results) + 1].raised
                                           THEN 1 ELSE 0]
    /\ UNCHANGED <<batch, vbatch, monitor_runs, monitor_calls, execVars,
                   verifyVars>>

\* phase 2 of run_cycle: select the auto-approved proposals not yet executed;
\* on a session awaiting rollback() the select raises and is caught
cycle_act ==
    /\ mpc = "act"
    /\ IF tx_invalid[MonitorSession]
       THEN /\ batch' = <<>>
            /\ cycle' = [cycle EXCEPT !.calls_before = calls[MonitorSession],
                                      !.errors = @ + 1]
       ELSE /\ batch' = AutoApprovedIds
            /\ cycle' = [cycle EXCEPT !.calls_before = calls[MonitorSession],
                                      !.exec_total = Len(AutoApprovedIds)]
    /\ mpc' = "executing"
    /\ UNCHANGED <<now, clock_steps, proposals, vbatch, monitor_runs,
                   monitor_calls, execVars, engineVars, verifyVars, txVars>>

\* execute_batch: the next proposal of the batch
cycle_execute ==
    /\ mpc = "executing"
    /\ batch # <<>>
    /\ execute_proposal(MonitorSession, Head(batch), FALSE)
    /\ batch' = Tail(batch)
    /\ UNCHANGED <<mpc, cycle, vbatch, monitor_runs, monitor_calls>>

\* an age check that skips a proposal executed at the cutoff too
TooOldAtCutoff(executed_at, cutoff) == executed_at <= cutoff

\* verify_batch: executed_at < cutoff
TooOld(executed_at, cutoff) == executed_at < cutoff

\* phase 3 of run_cycle: verify_batch loads the executed proposals and keeps
\* those executed within max_age_hours; on a session awaiting rollback() the
\* select raises and is caught
cycle_verify ==
    /\ mpc = "executing"
    /\ batch = <<>>
    /\ pc[MonitorSession] = "idle"
    /\ LET cutoff == now - VERIFY_MAX_AGE_HOURS * TicksPerHour
           executed == SelectSeq(ProposalIdsInOrder,
                                 LAMBDA i : /\ proposals[i].status = "executed"
                                            /\ proposals[i].executed_at # NoTime)
           records == {x \in returned : /\ x.session = MonitorSession
                                        /\ x.n > cycle.calls_before}
           failed == Cardinality({x \in records : ~x.success})
       IN  IF tx_invalid[MonitorSession]
           THEN /\ vbatch' = <<>>
                /\ cycle' = [cycle EXCEPT
                                !.vcalls_before = vcalls[MonitorSession],
                                !.errors = @ + 1]
           ELSE /\ vbatch' = SelectSeq(executed,
                                 LAMBDA i : ~TooOld(proposals[i].executed_at,
                                                    cutoff))
                /\ cycle' = [cycle EXCEPT
                                !.vcalls_before = vcalls[MonitorSession],
                                !.ver_total = Len(executed),
                                !.errors = @ + (IF failed > 0 THEN 1 ELSE 0)]
    /\ mpc' = "verifying"
    /\ UNCHANGED <<now, clock_steps, proposals, batch, monitor_runs,
                   monitor_calls, execVars, engineVars, verifyVars, txVars>>

\* verify_batch: the next proposal
cycle_verify_next ==
    /\ mpc = "verifying"
    /\ vbatch # <<>>
    /\ verify_proposal(MonitorSession, Head(vbatch))
    /\ vbatch' = Tail(vbatch)
    /\ UNCHANGED <<mpc, cycle, batch, monitor_runs, monitor_calls>>

\* the end of run_cycle: the MonitorRun row and its commit, outside any try;
\* on a session awaiting rollback() the commit raises, run_cycle raises and
\* the caller closes the session
cycle_record ==
    /\ mpc = "verifying"
    /\ vbatch = <<>>
    /\ vpc[MonitorSession] = "idle"
    /\ LET r == engine_results[cycle.run]
           records == {x \in returned : /\ x.session = MonitorSession
                                        /\ x.n > cycle.calls_before}
           failed == Cardinality({x \in records : ~x.success})
           results == {v \in verifications : /\ v.session = MonitorSession
                                             /\ v.n > cycle.vcalls_before}
           pending == Cardinality({v \in results : v.error = "pending"})
           verified == Cardinality({v \in results : v.success})
       IN  IF tx_invalid[MonitorSession]
           THEN /\ monitor_calls' = Append(monitor_calls,
                      [run |-> cycle.run, raised |-> TRUE,
                       errors |-> cycle.errors])
                /\ tx_rows' = [tx_rows EXCEPT ![MonitorSession] = {}]
                /\ tx_invalid' = [tx_invalid EXCEPT ![MonitorSession] = FALSE]
                /\ UNCHANGED <<monitor_runs, metric_rows>>
           ELSE /\ monitor_runs' = Append(monitor_runs,
                      [status |-> MonitorStatus(cycle.errors, r),
                       started_at |-> cycle.started_at,
                       snapshots |-> r.snapshot_count,
                       run |-> cycle.run,
                       engine_summary |->
                           [present |-> ~r.raised,
                            success |-> r.success,
                            proposals_created |-> Cardinality(r.created),
                            guardrail_rejections |-> r.guardrail_rejections,
                            method_evaluations |-> Len(r.checked)],
                       execution_summary |->
                           [present |-> cycle.exec_total > 0,
                            total |-> cycle.exec_total,
                            succeeded |-> Cardinality(records) - failed,
                            failed |-> failed],
                       verification_summary |->
                           [total |-> cycle.ver_total, verified |-> verified,
                            pending |-> pending,
                            failed |-> Cardinality(results) - verified
                                           - pending]])
                /\ monitor_calls' = Append(monitor_calls,
                      [run |-> cycle.run, raised |-> FALSE,
                       errors |-> cycle.errors])
                /\ Commit(MonitorSession)
    /\ mpc' = "idle"
    /\ cycle' = NoCycle
    /\ UNCHANGED <<now, clock_steps, proposals, batch, vbatch, execVars,
                   engineVars, verifyVars>>

----------------------------------------------------------------------------
(* Platform adapters (apps/analytics/app/platforms) *)

\* create_campaign calls in one behaviour
MaxCreateCalls == 3

\* META_MIN_ADSET_DAILY_BUDGET, in cents
META_MIN_ADSET_DAILY_BUDGET == 100

\* the keys of OBJECTIVE_MAP the plans use
OBJECTIVE_MAP == {"conversions", "traffic"}

\* ExecutionPlan: the fields the adapters read; ad_sets holds the daily
\* budget of each AdSetSpec
ExecutionPlan(campaign_name, objective, total_budget, ad_sets) ==
    [campaign_name |-> campaign_name, objective |-> objective,
     total_budget |-> total_budget, ad_sets |-> ad_sets]

\* the plan of the tests, the same without ad sets, and plans with a
\* negative budget, without a name, with an objective Meta does not know
\* and with an ad set below Meta's minimum
Plans ==
    {ExecutionPlan("Test Campaign", "conversions", 100000, <<5000>>),
     ExecutionPlan("Test Campaign", "conversions", 100000, <<>>),
     ExecutionPlan("Test Campaign", "conversions", -10000, <<5000>>),
     ExecutionPlan("", "conversions", 100000, <<5000>>),
     ExecutionPlan("Test Campaign", "clicks", 100000, <<5000>>),
     ExecutionPlan("Test Campaign", "traffic", 100000, <<50>>)}

\* an idempotency key: its first eight characters and the rest
IdempotencyKeys ==
    {[head |-> "idem-key", rest |-> "-1"],
     [head |-> "idem-key", rest |-> "-2"],
     [head |-> "3f2a9c1e", rest |-> "-meta"]}

\* idempotency_key[:8]
Prefix8(key) == key.head

\* what uuid.uuid4().hex[:8] can return
HexWords == {"3f2a9c1e", "b07d5e42"}

\* f"dry-run-{x}"
DryRunId(x) == <<"dry-run", x>>

\* external_campaign_id of a result without one
NoExternalId == <<>>

ValidationIssue(field, severity) == [field |-> field, severity |-> severity]

\* errors = [i for i in issues if i.severity == "error"]
Errors(issues) == SelectSeq(issues, LAMBDA i : i.severity = "error")

\* ExecutionResult: success, external_campaign_id, validation_issues, error
\* and the note of raw_response
ExecutionResult(success, external_campaign_id, issues, error, note) ==
    [success |-> success, external_campaign_id |-> external_campaign_id,
     validation_issues |-> issues, error |-> error, note |-> note]

\* DryRunExecutor.validate_plan
DryRunExecutor_validate_plan(plan) ==
    (IF plan.total_budget <= 0
     THEN <<ValidationIssue("total_budget", "error")>> ELSE <<>>)
    \o (IF plan.campaign_name = ""
        THEN <<ValidationIssue("campaign_name", "error")>> ELSE <<>>)
    \o (IF plan.ad_sets = <<>>
        THEN <<ValidationIssue("ad_sets", "warning")>> ELSE <<>>)

\* MetaAdsAdapter.validate_plan, for ad sets without creative data
MetaAdsAdapter_validate_plan(plan) ==
    (IF plan.total_budget <= 0
     THEN <<ValidationIssue("total_budget", "error")>> ELSE <<>>)
    \o (IF plan.campaign_name = ""
        THEN <<ValidationIssue("campaign_name", "error")>> ELSE <<>>)
    \o (IF plan.objective \notin OBJECTIVE_MAP
        THEN <<ValidationIssue("objective", "error")>> ELSE <<>>)
    \o SelectSeq([i \in DOMAIN plan.ad_sets |->
                     IF plan.ad_sets[i] < META_MIN_ADSET_DAILY_BUDGET
                     THEN ValidationIssue("daily_budget", "error")
                     ELSE ValidationIssue("", "")],
                 LAMBDA x : x.severity = "error")

\* what a create_campaign call is noted as, with what it returned
CreateCall(adapter, plan, key, result) ==
    [adapter |-> adapter, plan |-> plan, key |-> key, result |-> result]

\* DryRunExecutor.create_campaign
DryRunExecutor_create_campaign(plan, key) ==
    LET issues == DryRunExecutor_validate_plan(plan)
    IN  /\ IF key \in DOMAIN _created
           THEN \* idempotency: the cached key is answered before validation
                /\ create_calls' = Append(create_calls,
                      CreateCall("dry_run", plan, key,
                          ExecutionResult(TRUE, DryRunId(Prefix8(key)), <<>>,
                                          "", "idempotent_replay")))
                /\ UNCHANGED _created
           ELSE IF Errors(issues) # <<>>
           THEN /\ create_calls' = Append(create_calls,
                      CreateCall("dry_run", plan, key,
                          ExecutionResult(FALSE, NoExternalId, issues,
                                          "Validation failed", "")))
                /\ UNCHANGED _created
           ELSE \E hex \in HexWords :
                   /\ _created' = [k \in DOMAIN _created \cup {key} |->
                                      IF k = key THEN plan ELSE _created[k]]
                   /\ create_calls' = Append(create_calls,
                         CreateCall("dry_run", plan, key,
                             ExecutionResult(TRUE, DryRunId(hex), <<>>, "",
                                             "dry_run")))
        /\ UNCHANGED meta_objects

\* an object the Meta account holds
MetaObject(kind, id, campaign) == [kind |-> kind, id |-> id, campaign |-> campaign]

\* MetaAdsAdapter.create_campaign: the SDK returns, or raises
\* FacebookRequestError when the campaign or an ad set is created
MetaAdsAdapter_create_campaign(plan, key) ==
    LET issues == MetaAdsAdapter_validate_plan(plan)
        campaign_id == Cardinality(meta_objects) + 1
        campaign == MetaObject("campaign", campaign_id, campaign_id)
        ad_sets == {MetaObject("ad_set", campaign_id + i, campaign_id)
                      : i \in DOMAIN plan.ad_sets}
    IN  /\ IF Errors(issues) # <<>>
           THEN /\ create_calls' = Append(create_calls,
                      CreateCall("meta", plan, key,
                          ExecutionResult(FALSE, NoExternalId, issues,
                                          "Validation failed", "")))
                /\ UNCHANGED meta_objects
           ELSE \/ /\ meta_objects' = meta_objects \cup {campaign} \cup ad_sets
                   /\ create_calls' = Append(create_calls,
                         CreateCall("meta", plan, key,
                             ExecutionResult(TRUE, campaign_id, <<>>, "", "")))
                \/ /\ create_calls' = Append(create_calls,
                         CreateCall("meta", plan, key,
                             ExecutionResult(FALSE, NoExternalId, <<>>,
                                             "FacebookRequestError", "")))
                   /\ \/ UNCHANGED meta_objects
                      \/ /\ plan.ad_sets # <<>>
                         /\ meta_objects' = meta_objects \cup {campaign}
        /\ UNCHANGED _created

\* the adapters before any call
AdaptersFresh ==
    /\ _created = EmptyDict
    /\ meta_objects = {}
    /\ create_calls = <<>>

----------------------------------------------------------------------------
(* The agents (apps/analytics/app/services/agents): one AgentSession, its   *)
(* ReAct loop and the approval of its pending tool call                     *)

\* model calls in one behaviour
MaxModelCalls == 3

\* max_steps of PlannerAgent and ExecutorAgent when none is given
DEFAULT_MAX_STEPS == 15

\* max_steps a session is started with
SessionMaxSteps == {1, 2}

\* ToolSpec.requires_approval of the registered tools
RequiresApproval == [get_benchmarks |-> FALSE, create_campaign |-> TRUE]

\* the tool_use blocks a model response can hold, in order
Responses ==
    {<<>>, <<"get_benchmarks">>, <<"create_campaign">>,
     <<"get_benchmarks", "create_campaign">>}

\* context_json without a _pending_tool_call
NoPending == [tool_name |-> "", decision_id |-> NoId]

\* the agent_sessions row; status "none": no row yet
AgentSession(status, max_steps) ==
    [status |-> status, current_step |-> 0, max_steps |-> max_steps,
     pending |-> NoPending, note |-> "", error_message |-> ""]

NoSession == AgentSession("none", 0)

\* a request that is not in progress
NoRequest ==
    [pc |-> "idle", session |-> NoSession, loaded |-> NoSession,
     max_steps |-> 0, decision_id |-> NoId, approved |-> FALSE,
     holds |-> FALSE, decisions |-> EmptyDict, approvals |-> EmptyDict]

\* an act AgentDecision
ActDecision(tool_name) == [tool_name |-> tool_name, approval_status |-> ""]

\* a run of a tool's handler: the call it serves (the id of its act
\* decision), the decision it is logged under, and who ran it
ToolRun(tool_name, call_id, decision_id, via, approved) ==
    [tool_name |-> tool_name, call |-> call_id, decision |-> decision_id,
     via |-> via, approved |-> approved]

\* the UPDATE a flush issues: the attributes the request changed
Flushed(row, loaded, session) ==
    [f \in DOMAIN row |-> IF session[f] # loaded[f] THEN session[f] ELSE row[f]]

\* db.commit() of request s whose session object is session and whose new
\* AgentDecision rows are decisions
CommitRequest(s, session, decisions) ==
    LET r == agent_req[s]
    IN  /\ agent_session' = Flushed(agent_session, r.loaded, session)
        /\ agent_decisions' =
              [d \in DOMAIN agent_decisions \cup DOMAIN decisions |->
                  IF d \in DOMAIN decisions THEN decisions[d]
                  ELSE IF d \in DOMAIN r.approvals
                       THEN [agent_decisions[d] EXCEPT
                                !.approval_status = r.approvals[d]]
                       ELSE agent_decisions[d]]
        /\ agent_req' = [agent_req EXCEPT ![s] = NoRequest]

\* the agent_sessions row carries an uncommitted UPDATE of another request:
\* a flush of the row by request s waits for that request's commit
SessionRowLocked(s) ==
    \E t \in Sessions \ {s} : agent_req[t].holds

\* the same for the agent_decisions row d
DecisionRowLocked(s, d) ==
    \E t \in Sessions \ {s} : d \in DOMAIN agent_req[t].approvals

\* Orchestrator.start_session up to the first iteration of the loop
start_session(s, max_steps) ==
    /\ agent_session.status = "none"
    /\ \A t \in Sessions : agent_req[t].pc = "idle"
    /\ agent_req' = [agent_req EXCEPT ![s] =
          [NoRequest EXCEPT !.pc = "loop",
                            !.holds = TRUE,
                            !.session = AgentSession("running", max_steps),
                            !.max_steps = max_steps]]
    /\ UNCHANGED <<agent_session, agent_decisions, next_decision_id,
                   tool_runs, model_calls>>

\* Orchestrator.approve_decision up to the call of resume_after_approval:
\* the session is loaded and its status checked
approve_decision(s, decision_id, approved) ==
    /\ agent_req[s].pc = "idle"
    /\ agent_session.status # "none"
    /\ IF agent_session.status # "awaiting_approval"
       THEN UNCHANGED agent_req
       ELSE agent_req' = [agent_req EXCEPT ![s] =
               [NoRequest EXCEPT !.pc = "resume",
                                 !.session = agent_session,
                                 !.loaded = agent_session,
                                 !.max_steps = DEFAULT_MAX_STEPS,
                                 !.decision_id = decision_id,
                                 !.approved = approved]]
    /\ UNCHANGED <<agent_session, agent_decisions, next_decision_id,
                   tool_runs, model_calls>>

\* BaseAgent.resume_after_approval up to the call of _loop
resume_after_approval(s) ==
    LET r == agent_req[s]
        pending == r.session.pending
    IN  /\ r.pc = "resume"
        /\ IF r.decision_id \notin DOMAIN agent_decisions
           THEN /\ ~SessionRowLocked(s)
                /\ CommitRequest(s, [r.session EXCEPT
                                       !.status = "failed",
                                       !.error_message = "Decision not found"],
                                 EmptyDict)
                /\ UNCHANGED tool_runs
           ELSE /\ ~DecisionRowLocked(s, r.decision_id)
                /\ tool_runs' =
                      IF r.approved
                      THEN Append(tool_runs,
                              ToolRun(pending.tool_name, pending.decision_id,
                                      r.decision_id, "resume", TRUE))
                      ELSE tool_runs
                /\ agent_req' = [agent_req EXCEPT ![s] =
                      [r EXCEPT !.pc = "loop",
                                !.holds = ~SessionRowLocked(s),
                                !.approvals =
                                    [d \in {r.decision_id} |->
                                        IF r.approved THEN "approved"
                                        ELSE "rejected"],
                                !.session = [r.session EXCEPT
                                                !.pending = NoPending,
                                                !.status = "running"]]]
                /\ UNCHANGED <<agent_session, agent_decisions>>
        /\ UNCHANGED <<next_decision_id, model_calls>>

\* the tool calls of a response that are reached: those up to the first one
\* that requires approval
RECURSIVE Reached(_)
Reached(tool_calls) ==
    IF tool_calls = <<>> THEN <<>>
    ELSE IF RequiresApproval[Head(tool_calls)] THEN <<Head(tool_calls)>>
         ELSE <<Head(tool_calls)>> \o Reached(Tail(tool_calls))

\* one pass of BaseAgent._loop: the while test, the model call and the tool
\* calls of its response; a pass that returns is followed by the caller's
\* commit
_loop(s) ==
    LET r == agent_req[s]
        step == r.session.current_step + 1
        stepped == [r.session EXCEPT !.current_step = step]
    IN  /\ r.pc = "loop"
        /\ ~SessionRowLocked(s)
        /\ IF ~(r.session.current_step < r.max_steps)
           THEN \* max steps reached
                /\ CommitRequest(s, [r.session EXCEPT
                                       !.status = "completed",
                                       !.note = "max_steps_reached"],
                                 r.decisions)
                /\ UNCHANGED <<next_decision_id, tool_runs, model_calls>>
           ELSE /\ model_calls' = model_calls + 1
                /\ \/ \* llm.create_message raises
                      /\ CommitRequest(s, [stepped EXCEPT
                                             !.status = "failed",
                                             !.error_message = "LLM error"],
                                       r.decisions)
                      /\ UNCHANGED <<next_decision_id, tool_runs>>
                   \/ \E tool_calls \in Responses :
                         LET reached == Reached(tool_calls)
                             ids == [i \in DOMAIN reached |->
                                        next_decision_id + i - 1]
                             paused ==
                                 /\ reached # <<>>
                                 /\ RequiresApproval[reached[Len(reached)]]
                             executed ==
                                 SelectSeq([i \in DOMAIN reached |->
                                               ToolRun(reached[i], ids[i],
                                                       ids[i], "loop", FALSE)],
                                           LAMBDA x :
                                               ~RequiresApproval[x.tool_name])
                             acts ==
                                 [d \in DOMAIN r.decisions
                                        \cup {ids[i] : i \in DOMAIN reached} |->
                                     IF d \in DOMAIN r.decisions
                                     THEN r.decisions[d]
                                     ELSE ActDecision(
                                              reached[d - next_decision_id + 1])]
                         IN  /\ next_decision_id' =
                                    next_decision_id + Len(reached)
                             /\ tool_runs' = tool_runs \o executed
                             /\ IF tool_calls = <<>>
                                THEN \* no tool calls: the final answer
                                     CommitRequest(s,
                                         [stepped EXCEPT !.status = "completed"],
                                         acts)
                                ELSE IF paused
                                THEN \* the call is stored and the loop returns
                                     CommitRequest(s,
                                         [stepped EXCEPT
                                             !.status = "awaiting_approval",
                                             !.pending =
                                                 [tool_name |->
                                                      reached[Len(reached)],
                                                  decision_id |->
                                                      ids[Len(reached)]]],
                                         acts)
                                ELSE \* observe, and the next pass
                                     /\ agent_req' = [agent_req EXCEPT ![s] =
                                           [r EXCEPT !.session = stepped,
                                                     !.holds = TRUE,
                                                     !.decisions = acts]]
                                     /\ UNCHANGED <<agent_session,
                                                    agent_decisions>>

\* the agents before any session is started
AgentsAtRest ==
    /\ agent_session = NoSession
    /\ agent_decisions = EmptyDict
    /\ next_decision_id = 1
    /\ tool_runs = <<>>
    /\ model_calls = 0
    /\ agent_req = [s \in Sessions |-> NoRequest]

\* what lies outside the optimization controller, before anything ran
OutsideAtRest ==
    /\ AdaptersFresh
    /\ AgentsAtRest

----------------------------------------------------------------------------
(* The executor's specification: proposals as the engine and the approval  *)
(* endpoint leave them, executed by concurrent sessions                    *)

ProposalIds == 1..NumExecProposals

Statuses == {"pending", "auto_approved", "approved", "rejected", "executed",
             "failed", "expired"}

Seed(a, payload, st) ==
    [method |-> "seed", action_type |-> a, payload |-> payload, status |-> st,
     confidence |-> 9000, created_at |-> 0, executed_at |-> NoTime,
     execution_result |-> NoResult,
     approved_by |-> IF st = "auto_approved" THEN "engine"
                     ELSE IF st \in {"approved", "rejected"} THEN "operator"
                     ELSE "",
     approved_at |-> IF st \in {"auto_approved", "approved", "rejected"}
                     THEN 0 ELSE NoTime,
     checks |-> <<>>, allocations |-> EmptyDict]

\* the payload shapes of each action_type: new_allocations of two channels
\* or one, the reductions of the CPA-spike method, affected channels or none
ExecActions ==
    {<<"budget_reallocation",
       Payload(pl, Dict([c \in {"meta", "google"} |-> 150000]), Absent, <<>>)>>
        : pl \in {"meta", "google"}}
    \cup {<<"budget_reallocation",
            Payload("meta", Dict([c \in {"meta"} |-> 350000]), Absent, <<>>)>>,
          <<"budget_reallocation",
            Payload("meta", Absent, Dict([c \in {"meta"} |-> 60000]), <<>>)>>,
          <<"pause_channel", Payload("meta", Absent, Absent, <<"meta", "google">>)>>,
          <<"pause_channel", Payload("meta", Absent, Absent, <<>>)>>,
          <<"resume_channel", Payload("google", Absent, Absent, <<"google">>)>>,
          <<"creative_refresh", Payload("meta", Absent, Absent, <<>>)>>,
          <<"scale_channel", Payload("meta", Absent, Absent, <<>>)>>}

\* the rows the executor can meet before any execution: what the engine
\* writes (pending, auto_approved), what the approval endpoint writes
\* (approved, rejected) and what an operator marks (expired)
ExecSeeds ==
    {Seed(x[1], x[2], st) : x \in ExecActions, st \in {"approved", "pending"}}
    \cup {Seed("budget_reallocation",
                Payload("meta", Dict([c \in {"meta", "google"} |-> 150000]),
                        Absent, <<>>), st)
          : st \in {"auto_approved", "rejected", "expired"}}

InitExec ==
    /\ now = 0
    /\ dry_run \in BOOLEAN
    /\ proposals \in [ProposalIds -> ExecSeeds]
    /\ executions = {}
    /\ execution_actions = {}
    /\ platform_calls = {}
    /\ next_execution_id = 1
    /\ pc = [s \in Sessions |-> "idle"]
    /\ call = [s \in Sessions |-> Idle]
    /\ calls = [s \in Sessions |-> 0]
    /\ uncommitted = [s \in Sessions |-> NoExecution]
    /\ returned = {}
    /\ clock_steps = 0
    /\ settings = DefaultSettings
    /\ snapshot_count = 0
    /\ ingested = 0
    /\ ctx = QuietContext
    /\ methods = EmptyDict
    /\ engine_results = <<>>
    /\ learnings = {}
    /\ next_learning_id = 1
    /\ vpc = [s \in Sessions |-> "idle"]
    /\ vcall = [s \in Sessions |-> NoVerify]
    /\ vcalls = [s \in Sessions |-> 0]
    /\ verifications = {}
    /\ mpc = "idle"
    /\ cycle = NoCycle
    /\ batch = <<>>
    /\ vbatch = <<>>
    /\ monitor_runs = <<>>
    /\ monitor_calls = <<>>
    /\ registry = build_default_registry
    /\ metric_rows = {}
    /\ tx_rows = [s \in Sessions |-> {}]
    /\ tx_invalid = [s \in Sessions |-> FALSE]
    /\ OutsideAtRest

NextExec ==
    /\ \E s \in Sessions :
          \/ /\ calls[s] < MaxCalls
             /\ \E p \in ProposalIds, force \in BOOLEAN :
                   execute_proposal(s, p, force)
          \/ flush_execution(s)
          \/ dispatch_and_commit(s)
    /\ UNCHANGED <<monitorVars, outsideVars>>

SpecExec == InitExec /\ [][NextExec]_vars

\* the same store with one caller: every call returns before the next starts
NextExecSeq ==
    /\ \/ /\ calls["A"] < MaxCalls
          /\ \E p \in ProposalIds, force \in BOOLEAN :
                execute_proposal("A", p, force)
       \/ flush_execution("A")
       \/ dispatch_and_commit("A")
    /\ UNCHANGED <<monitorVars, outsideVars>>

SpecExecSeq == InitExec /\ [][NextExecSeq]_vars

----------------------------------------------------------------------------
(* The engine's specification: one campaign whose snapshots change, the     *)
(* engine run against it as the clock advances                              *)

SnapshotCounts == {0, 1, 4, 9, 10}

\* the registries an engine is constructed with: the default one, and the
\* default one with a method that raises registered after or before it
EngineRegistries ==
    {build_default_registry,
     build_default_registry \o <<RaisingMethod>>,
     <<RaisingMethod>> \o build_default_registry}

InitEngine ==
    /\ now = 0
    /\ clock_steps = 0
    /\ proposals = <<>>
    /\ dry_run = TRUE
    /\ executions = {}
    /\ execution_actions = {}
    /\ platform_calls = {}
    /\ next_execution_id = 1
    /\ pc = [s \in Sessions |-> "idle"]
    /\ call = [s \in Sessions |-> Idle]
    /\ calls = [s \in Sessions |-> 0]
    /\ uncommitted = [s \in Sessions |-> NoExecution]
    /\ returned = {}
    /\ settings \in SettingsChoices
    /\ snapshot_count \in SnapshotCounts
    /\ ingested = 0
    /\ ctx \in Contexts
    /\ methods = EmptyDict
    /\ engine_results = <<>>
    /\ learnings = {}
    /\ next_learning_id = 1
    /\ vpc = [s \in Sessions |-> "idle"]
    /\ vcall = [s \in Sessions |-> NoVerify]
    /\ vcalls = [s \in Sessions |-> 0]
    /\ verifications = {}
    /\ mpc = "idle"
    /\ cycle = NoCycle
    /\ batch = <<>>
    /\ vbatch = <<>>
    /\ monitor_runs = <<>>
    /\ monitor_calls = <<>>
    /\ registry \in EngineRegistries
    /\ metric_rows = {}
    /\ tx_rows = [s \in Sessions |-> {}]
    /\ tx_invalid = [s \in Sessions |-> FALSE]
    /\ OutsideAtRest

NextEngine ==
    /\ \/ run
       \/ \E c \in Contexts : ingest_snapshot(c)
       \/ /\ clock_steps < MaxClockSteps
          /\ advance(1)
    /\ UNCHANGED <<monitorVars, outsideVars>>

SpecEngine == InitEngine /\ [][NextEngine]_vars

----------------------------------------------------------------------------
(* The engine on a registry that gains a method between two runs          *)

NextRegistry ==
    /\ \/ run
       \/ \E c \in Contexts : ingest_snapshot(c)
       \/ /\ clock_steps < MaxClockSteps
          /\ advance(1)
       \/ register(SharedActionMethod)
    /\ UNCHANGED <<monitorVars, outsideVars>>

SpecRegistry == InitEngine /\ [][NextRegistry]_vars

----------------------------------------------------------------------------
(* The verifier's specification: proposals the executor has finished with, *)
(* verified by concurrent sessions as the verification window passes        *)

\* proposals in the store of the verifier's specification
NumVerifyProposals == 1

\* steps of the clock while the verifier is called
MaxVerifyClockSteps == 1

Executed(a, payload) ==
    [Seed(a, payload, "executed") EXCEPT
        !.executed_at = 0,
        !.execution_result = [kind |-> IF a \in ADVISORY_ACTIONS
                                       THEN "advisory" ELSE "result",
                              execution_id |-> 1, success |-> TRUE]]

VerifySeeds ==
    {Executed("budget_reallocation",
              Payload("", Absent, Dict([c \in {"meta"} |-> 40000]), <<>>)),
     Executed("creative_refresh", Payload("", Absent, Absent, <<>>)),
     Seed("creative_refresh", Payload("", Absent, Absent, <<>>), "failed"),
     Seed("budget_reallocation",
          Payload("", Absent, Dict([c \in {"meta"} |-> 40000]), <<>>),
          "auto_approved")}

\* the method rows the engine registered, with or without earlier learnings
MethodRows ==
    {[n \in {"budget_reallocation", "creative_refresh"} |-> NoStats],
     [n \in {"budget_reallocation", "creative_refresh"} |->
         [total_executions |-> 2, successful_executions |-> 1,
          avg_accuracy |-> 4000]]}

\* the KPIs the verifier can find: a ROAS that scores 1.0, or no ROAS and a
\* CPA that scores below 0.5
VerifyContexts == {c \in Contexts : c.kpis.cpa \in {2500, 9000}}

InitVerify ==
    /\ now = 0
    /\ clock_steps = 0
    /\ proposals \in [1..NumVerifyProposals -> VerifySeeds]
    /\ dry_run = TRUE
    /\ executions = {}
    /\ execution_actions = {}
    /\ platform_calls = {}
    /\ next_execution_id = 2
    /\ pc = [s \in Sessions |-> "idle"]
    /\ call = [s \in Sessions |-> Idle]
    /\ calls = [s \in Sessions |-> 0]
    /\ uncommitted = [s \in Sessions |-> NoExecution]
    /\ returned = {}
    /\ settings = DefaultSettings
    /\ snapshot_count \in {0, 4}
    /\ ingested = 0
    /\ ctx \in VerifyContexts
    /\ methods \in MethodRows
    /\ engine_results = <<>>
    /\ learnings = {}
    /\ next_learning_id = 1
    /\ vpc = [s \in Sessions |-> "idle"]
    /\ vcall = [s \in Sessions |-> NoVerify]
    /\ vcalls = [s \in Sessions |-> 0]
    /\ verifications = {}
    /\ mpc = "idle"
    /\ cycle = NoCycle
    /\ batch = <<>>
    /\ vbatch = <<>>
    /\ monitor_runs = <<>>
    /\ monitor_calls = <<>>
    /\ registry = build_default_registry
    /\ metric_rows = {}
    /\ tx_rows = [s \in Sessions |-> {}]
    /\ tx_invalid = [s \in Sessions |-> FALSE]
    /\ OutsideAtRest

NextVerify ==
    /\ \/ \E s \in Sessions :
             \/ /\ vcalls[s] < MaxVerifyCalls
                /\ \E p \in DOMAIN proposals : verify_proposal(s, p)
             \/ load_method(s)
             \/ commit_learning(s)
       \/ /\ clock_steps < MaxVerifyClockSteps
          /\ \E d \in {1, VerificationTicks} : advance(d)
    /\ UNCHANGED <<monitorVars, outsideVars>>

SpecVerify == InitVerify /\ [][NextVerify]_vars

----------------------------------------------------------------------------
(* The stats' specifications: executed proposals of methods nothing was     *)
(* verified for yet, verified by two sessions while the KPIs change; by one *)
(* call at a time in the first, by concurrent calls in the second           *)

\* proposals in the store of the stats' specifications
NumStatsProposals == 3

\* verify_proposal calls in one behaviour of the stats' specifications
MaxStatsCalls == 3

\* steps of the clock in one behaviour of the stats' specifications
MaxStatsClockSteps == 1

StatsSeeds ==
    {Executed("budget_reallocation",
              Payload("", Absent, Dict([c \in {"meta"} |-> 40000]), <<>>)),
     Executed("creative_refresh", Payload("", Absent, Absent, <<>>))}

\* the KPIs the verifier can find: a ROAS and a CTR that score 1.0, or no
\* ROAS, a CPA that scores 0.3333 and a CTR that scores 0.25
StatsContexts == {c \in Contexts : c.kpis.cpa \in {2500, 9000}}

\* count executed proposals, their methods' rows without stats, no learning
InitStatsOf(count) ==
    /\ now = 0
    /\ clock_steps = 0
    /\ proposals \in [1..count -> StatsSeeds]
    /\ dry_run = TRUE
    /\ executions = {}
    /\ execution_actions = {}
    /\ platform_calls = {}
    /\ next_execution_id = 2
    /\ pc = [s \in Sessions |-> "idle"]
    /\ call = [s \in Sessions |-> Idle]
    /\ calls = [s \in Sessions |-> 0]
    /\ uncommitted = [s \in Sessions |-> NoExecution]
    /\ returned = {}
    /\ settings = DefaultSettings
    /\ snapshot_count = 4
    /\ ingested = 0
    /\ ctx \in StatsContexts
    /\ methods = [n \in {"budget_reallocation", "creative_refresh"} |-> NoStats]
    /\ engine_results = <<>>
    /\ learnings = {}
    /\ next_learning_id = 1
    /\ vpc = [s \in Sessions |-> "idle"]
    /\ vcall = [s \in Sessions |-> NoVerify]
    /\ vcalls = [s \in Sessions |-> 0]
    /\ verifications = {}
    /\ mpc = "idle"
    /\ cycle = NoCycle
    /\ batch = <<>>
    /\ vbatch = <<>>
    /\ monitor_runs = <<>>
    /\ monitor_calls = <<>>
    /\ registry = build_default_registry
    /\ metric_rows = {}
    /\ tx_rows = [s \in Sessions |-> {}]
    /\ tx_invalid = [s \in Sessions |-> FALSE]
    /\ OutsideAtRest

InitStats == InitStatsOf(NumStatsProposals)

\* no verify_proposal call is in progress
NoVerifyInProgress == \A s \in Sessions : vpc[s] = "idle"

\* the calls so far are fewer than MaxStatsCalls
StatsCallsLeft == vcalls["A"] + vcalls["B"] < MaxStatsCalls

\* what the store and the clock do while the verifier is called
StatsEnvironment ==
    \/ \E c \in StatsContexts : ingest_snapshot(c)
    \/ /\ clock_steps < MaxStatsClockSteps
       /\ advance(VerificationTicks)

NextStats ==
    /\ \/ \E s \in Sessions :
             \/ /\ StatsCallsLeft
                /\ NoVerifyInProgress
                /\ \E p \in DOMAIN proposals : verify_proposal(s, p)
             \/ load_method(s)
             \/ commit_learning(s)
       \/ StatsEnvironment
    /\ UNCHANGED <<monitorVars, outsideVars>>

SpecStats == InitStats /\ [][NextStats]_vars

\* proposals in the store when the calls are concurrent
NumConcurrentProposals == 2

\* verify_proposal calls in one behaviour when the calls are concurrent
MaxConcurrentCalls == 2

InitStatsConcurrent == InitStatsOf(NumConcurrentProposals)

NextStatsConcurrent ==
    /\ \/ \E s \in Sessions :
             \/ /\ vcalls["A"] + vcalls["B"] < MaxConcurrentCalls
                /\ \E p \in DOMAIN proposals : verify_proposal(s, p)
             \/ load_method(s)
             \/ commit_learning(s)
       \/ StatsEnvironment
    /\ UNCHANGED <<monitorVars, outsideVars>>

SpecStatsConcurrent == InitStatsConcurrent /\ [][NextStatsConcurrent]_vars

----------------------------------------------------------------------------
(* The monitor's specification: one monitor running cycle after cycle for a *)
(* campaign whose snapshots change, as the clock advances                   *)

\* what the snapshots of a monitored campaign show: nothing, a CPA spike, or
\* a CPA spike and a CTR decline
MonitorContexts ==
    {c \in Contexts : \/ c = QuietContext
                      \/ \E ch \in ChannelSet : c.cpa_change[ch] >= 3500}

\* the registries of a monitor: build_default_registry(), and a method that
\* raises registered on it
MonitorRegistries ==
    {build_default_registry, build_default_registry \o <<RaisingMethod>>}

\* a monitor about to run its first cycle for a campaign whose proposals
\* are rows
InitMonitorFrom(rows) ==
    /\ now = 0
    /\ clock_steps = 0
    /\ proposals = rows
    /\ dry_run = TRUE
    /\ executions = {}
    /\ execution_actions = {}
    /\ platform_calls = {}
    /\ next_execution_id = 1
    /\ pc = [s \in Sessions |-> "idle"]
    /\ call = [s \in Sessions |-> Idle]
    /\ calls = [s \in Sessions |-> 0]
    /\ uncommitted = [s \in Sessions |-> NoExecution]
    /\ returned = {}
    /\ settings = DefaultSettings
    /\ snapshot_count \in {0, 1, 10}
    /\ ingested = 0
    /\ ctx \in MonitorContexts
    /\ methods = EmptyDict
    /\ engine_results = <<>>
    /\ learnings = {}
    /\ next_learning_id = 1
    /\ vpc = [s \in Sessions |-> "idle"]
    /\ vcall = [s \in Sessions |-> NoVerify]
    /\ vcalls = [s \in Sessions |-> 0]
    /\ verifications = {}
    /\ mpc = "idle"
    /\ cycle = NoCycle
    /\ batch = <<>>
    /\ vbatch = <<>>
    /\ monitor_runs = <<>>
    /\ monitor_calls = <<>>
    /\ registry \in MonitorRegistries
    /\ metric_rows = {}
    /\ tx_rows = [s \in Sessions |-> {}]
    /\ tx_invalid = [s \in Sessions |-> FALSE]
    /\ OutsideAtRest

InitMonitor == InitMonitorFrom(<<>>)

NextMonitor ==
    /\ \/ /\ Len(monitor_calls) < MaxCycles
          /\ cycle_observe
       \/ cycle_act
       \/ cycle_execute
       \/ /\ flush_execution(MonitorSession)
          /\ UNCHANGED monitorVars
       \/ /\ dispatch_and_commit(MonitorSession)
          /\ UNCHANGED monitorVars
       \/ cycle_verify
       \/ cycle_verify_next
       \/ /\ load_method(MonitorSession)
          /\ UNCHANGED monitorVars
       \/ /\ commit_learning(MonitorSession)
          /\ UNCHANGED monitorVars
       \/ cycle_record
       \/ /\ \E c \in MonitorContexts : ingest_snapshot(c)
          /\ UNCHANGED monitorVars
       \/ /\ clock_steps < MaxClockSteps
          /\ \E d \in {1, VerificationTicks} : advance(d)
          /\ UNCHANGED monitorVars
    /\ UNCHANGED outsideVars

SpecMonitor == InitMonitor /\ [][NextMonitor]_vars

\* the monitor over a period longer than max_age_hours
NextMonitorLong ==
    /\ \/ /\ Len(monitor_calls) < MaxCycles
          /\ cycle_observe
       \/ cycle_act
       \/ cycle_execute
       \/ /\ flush_execution(MonitorSession)
          /\ UNCHANGED monitorVars
       \/ /\ dispatch_and_commit(MonitorSession)
          /\ UNCHANGED monitorVars
       \/ cycle_verify
       \/ cycle_verify_next
       \/ /\ load_method(MonitorSession)
          /\ UNCHANGED monitorVars
       \/ /\ commit_learning(MonitorSession)
          /\ UNCHANGED monitorVars
       \/ cycle_record
       \/ /\ \E c \in MonitorContexts : ingest_snapshot(c)
          /\ UNCHANGED monitorVars
       \/ /\ clock_steps < MaxClockSteps
          /\ \E d \in {1, VERIFY_MAX_AGE_HOURS * TicksPerHour} : advance(d)
          /\ UNCHANGED monitorVars
    /\ UNCHANGED outsideVars

SpecMonitorLong == InitMonitor /\ [][NextMonitorLong]_vars

----------------------------------------------------------------------------
(* The operated monitor's specification: the monitor of a campaign with a   *)
(* CPA spike on meta, while an operator approves or rejects proposals       *)

\* cycles of the operated monitor in one behaviour
MaxOperatedCycles == 2

\* steps of the clock while the operated monitor runs
MaxOperatedClockSteps == 1

\* the proposals of the campaign before the first cycle: none, or one that
\* an earlier execution left failed
OperatedSeeds ==
    {<<>>,
     <<Seed("pause_channel", Payload("meta", Absent, Absent, <<"meta">>),
            "failed")>>}

InitOperated ==
    /\ \E rows \in OperatedSeeds : InitMonitorFrom(rows)
    /\ registry = build_default_registry
    /\ snapshot_count \in {1, 10}
    /\ \A ch \in ChannelSet : ctx.cpa_change[ch] >= 3500 <=> ch = "meta"

NextOperated ==
    /\ \/ /\ Len(monitor_calls) < MaxOperatedCycles
          /\ cycle_observe
       \/ cycle_act
       \/ cycle_execute
       \/ /\ flush_execution(MonitorSession)
          /\ UNCHANGED monitorVars
       \/ /\ dispatch_and_commit(MonitorSession)
          /\ UNCHANGED monitorVars
       \/ cycle_verify
       \/ cycle_verify_next
       \/ /\ load_method(MonitorSession)
          /\ UNCHANGED monitorVars
       \/ /\ commit_learning(MonitorSession)
          /\ UNCHANGED monitorVars
       \/ cycle_record
       \/ /\ clock_steps < MaxOperatedClockSteps
          /\ advance(VerificationTicks)
          /\ UNCHANGED monitorVars
       \/ /\ Cardinality(Decided) < MaxApprovals
          /\ \E p \in DOMAIN proposals \ Decided,
                action \in {"approve", "reject"} : approve_proposal(p, action)
    /\ UNCHANGED outsideVars

SpecOperated == InitOperated /\ [][NextOperated]_vars

----------------------------------------------------------------------------
(* The executor called without force while time passes: the execute       *)
(* endpoint and execute_batch on proposals that wait for their call       *)

NextExecClock ==
    /\ \/ \E s \in Sessions :
             \/ /\ calls[s] < MaxCalls
                /\ \E p \in ProposalIds : execute_proposal(s, p, FALSE)
             \/ flush_execution(s)
             \/ dispatch_and_commit(s)
       \/ /\ clock_steps < MaxClockSteps
          /\ \E d \in {1, VerificationTicks} : advance(d)
    /\ UNCHANGED <<monitorVars, outsideVars>>

SpecExecClock == InitExec /\ [][NextExecClock]_vars

----------------------------------------------------------------------------
(* The adapters' specification: one DryRunExecutor and one MetaAdsAdapter   *)
(* whose create_campaign is called with plans and keys of every kind       *)

\* the optimization controller before anything ran, without a campaign
ControllerAtRest ==
    /\ now = 0
    /\ clock_steps = 0
    /\ proposals = <<>>
    /\ dry_run = TRUE
    /\ executions = {}
    /\ execution_actions = {}
    /\ platform_calls = {}
    /\ next_execution_id = 1
    /\ pc = [s \in Sessions |-> "idle"]
    /\ call = [s \in Sessions |-> Idle]
    /\ calls = [s \in Sessions |-> 0]
    /\ uncommitted = [s \in Sessions |-> NoExecution]
    /\ returned = {}
    /\ settings = DefaultSettings
    /\ snapshot_count = 0
    /\ ingested = 0
    /\ ctx = QuietContext
    /\ methods = EmptyDict
    /\ engine_results = <<>>
    /\ learnings = {}
    /\ next_learning_id = 1
    /\ vpc = [s \in Sessions |-> "idle"]
    /\ vcall = [s \in Sessions |-> NoVerify]
    /\ vcalls = [s \in Sessions |-> 0]
    /\ verifications = {}
    /\ mpc = "idle"
    /\ cycle = NoCycle
    /\ batch = <<>>
    /\ vbatch = <<>>
    /\ monitor_runs = <<>>
    /\ monitor_calls = <<>>
    /\ registry = build_default_registry
    /\ metric_rows = {}
    /\ tx_rows = [s \in Sessions |-> {}]
    /\ tx_invalid = [s \in Sessions |-> FALSE]

InitAdapters ==
    /\ ControllerAtRest
    /\ OutsideAtRest

NextAdapters ==
    /\ Len(create_calls) < MaxCreateCalls
    /\ \E plan \in Plans, key \in IdempotencyKeys :
          \/ DryRunExecutor_create_campaign(plan, key)
          \/ MetaAdsAdapter_create_campaign(plan, key)
    /\ UNCHANGED <<controllerVars, agentVars>>

SpecAdapters == InitAdapters /\ [][NextAdapters]_vars

----------------------------------------------------------------------------
(* The agents' specification: one session is started and the decisions of  *)
(* its act phase are approved or rejected by concurrent requests           *)

InitAgents ==
    /\ ControllerAtRest
    /\ OutsideAtRest

NextAgents ==
    /\ \E s \in Sessions :
          \/ \E max_steps \in SessionMaxSteps : start_session(s, max_steps)
          \/ \E d \in DOMAIN agent_decisions \cup {NoId}, approved \in BOOLEAN :
                approve_decision(s, d, approved)
          \/ resume_after_approval(s)
          \/ /\ \/ model_calls < MaxModelCalls
                \/ ~(agent_req[s].session.current_step < agent_req[s].max_steps)
             /\ _loop(s)
    /\ UNCHANGED <<controllerVars, adapterVars>>

SpecAgents == InitAgents /\ [][NextAgents]_vars

----------------------------------------------------------------------------
(* Properties of the executor *)

ApprovedStatuses == {"approved", "auto_approved"}

\* pairs of returned records: a call on an approved or auto-approved
\* proposal and the same caller's next call, on the same proposal
TwiceInSequence ==
    {x \in returned \X returned :
        /\ x[1].session = x[2].session
        /\ x[1].proposal = x[2].proposal
        /\ x[2].n = x[1].n + 1
        /\ x[1].seen_status \in ApprovedStatuses}

\* C1 as stated: of two calls in sequence on an approved or auto-approved
\* proposal the second, forced or not, returns the execution_id of the first,
\* adds no Execution or ExecutionAction row and issues no platform call.
C1_SecondCallSameExecution ==
    \A x \in TwiceInSequence :
        /\ x[2].execution_id = x[1].execution_id
        /\ x[2].rows = x[1].rows
        /\ x[2].ops = x[1].ops

\* C1 amended: the second of two calls in sequence adds no Execution or
\* ExecutionAction row and issues no platform call; forced, it returns the
\* execution_id of the first; unforced, it fails with no execution_id.
C1_SecondCallAddsNothing ==
    \A x \in TwiceInSequence :
        /\ x[2].rows = x[1].rows
        /\ x[2].ops = x[1].ops
        /\ x[2].force => x[2].execution_id = x[1].execution_id
        /\ ~x[2].force => ~x[2].success /\ x[2].execution_id = NoId

\* a forced second call has returned the Execution the first one committed,
\* whose platform calls were issued
C1_Witness ==
    \E x \in TwiceInSequence :
        /\ x[1].execution_id # NoId
        /\ x[1].ops > 0
        /\ x[2].force
        /\ x[2].success
        /\ x[2].execution_id = x[1].execution_id

\* the (proposal, force) of the calls of execute_proposal a step starts
StartedCalls ==
    {[proposal |-> r.proposal, force |-> r.force, session |-> r.session]
        : r \in {q \in returned' \ returned :
                    calls'[q.session] # calls[q.session]}}
    \cup {[proposal |-> call'[s].proposal, force |-> call'[s].force,
            session |-> s]
          : s \in {t \in Sessions : pc[t] = "idle" /\ pc'[t] = "execute"}}

\* C2: a call with force false on a proposal whose status is neither
\* approved nor auto_approved returns success false at once, and leaves the
\* proposal row, the Execution and ExecutionAction rows and the platform
\* untouched.
C2_StatusGateRejects ==
    [][\A c \in StartedCalls :
          (~c.force /\ proposals[c.proposal].status \notin ApprovedStatuses)
          => /\ \E r \in returned' \ returned :
                    /\ r.session = c.session
                    /\ r.proposal = c.proposal
                    /\ ~r.success
                    /\ r.execution_id = NoId
             /\ pc'[c.session] = "idle"
             /\ proposals' = proposals
             /\ executions' = executions
             /\ execution_actions' = execution_actions
             /\ platform_calls' = platform_calls
             /\ uncommitted' = uncommitted]_vars

\* unforced calls have been rejected on a pending proposal and on one that
\* another call had executed
C2_Witness ==
    /\ \E r \in returned :
          ~r.force /\ r.seen_status = "pending" /\ r.error = "status"
    /\ \E r \in returned :
          ~r.force /\ r.seen_status = "executed" /\ r.error = "status"

\* the calls that issued platform operations for proposal p
IssuingCalls(p) ==
    {<<c.session, c.n>> : c \in {d \in platform_calls : d.proposal = p}}

\* C3: no two committed Executions share an idempotency_key, and the
\* sub-actions of a proposal are issued to the platform by at most one call,
\* however the calls of the two sessions interleave.
C3_OneExecutionPerKey ==
    /\ \A e1, e2 \in executions :
          e1.idempotency_key = e2.idempotency_key => e1 = e2
    /\ \A p \in ProposalIds :
          /\ Cardinality({e \in executions : e.proposal = p}) <= 1
          /\ Cardinality(IssuingCalls(p)) <= 1

\* two calls passed the idempotency check together; one committed its
\* Execution and issued the platform calls, the other lost on the unique key
C3_Witness ==
    \E r1, r2 \in returned :
        /\ r1.session # r2.session
        /\ r1.proposal = r2.proposal
        /\ r1.execution_id # NoId
        /\ r1.ops > 0
        /\ r2.error = "IntegrityError"

----------------------------------------------------------------------------
(* Properties of the engine *)

ProposalRows == {proposals[i] : i \in DOMAIN proposals}

EngineResults == {engine_results[i] : i \in DOMAIN engine_results}

\* the evaluations of run r that had a failing guardrail check
Rejected(r) ==
    {k \in DOMAIN r.checked :
        \E j \in DOMAIN r.checked[k].checks : ~r.checked[k].checks[j].passed}

\* C4: every persisted proposal carries guardrail checks (rate limit and
\* cooldown at least) that all passed, and every run's guardrail_rejections
\* counts exactly its evaluations with a failing check, none of which
\* became a proposal.
C4_PersistedPassedEveryCheck ==
    /\ \A p \in ProposalRows :
          /\ Len(p.checks) >= 2
          /\ \A j \in DOMAIN p.checks : p.checks[j].passed
    /\ \A r \in EngineResults :
          /\ r.guardrail_rejections = Cardinality(Rejected(r))
          /\ Cardinality(r.created) = Len(r.checked) - Cardinality(Rejected(r))
          /\ \A i \in r.created : proposals[i].created_at = r.at

\* a run rejected one evaluation on a guardrail and persisted another
C4_Witness ==
    \E r \in EngineResults :
        /\ r.guardrail_rejections >= 1
        /\ r.created # {}
        /\ \E k \in Rejected(r) : ~r.checked[k].checks[2].passed

\* C5 as stated: no persisted budget_reallocation proposal changes the
\* budget of a channel by more than max_change_pct of its current budget,
\* be the change a new allocation or a reduction.
C5_BudgetChangeWithinLimit ==
    \A p \in ProposalRows :
        p.action_type = "budget_reallocation" =>
            /\ \A ch \in DOMAIN p.payload.new_allocations.items
                            \cap DOMAIN p.allocations :
                  p.allocations[ch] > 0
                  => 10000 * Abs(p.payload.new_allocations.items[ch]
                                 - p.allocations[ch])
                         <= settings.max_change_pct * p.allocations[ch]
            /\ \A ch \in DOMAIN p.payload.reductions.items :
                  p.allocations[ch] > 0
                  => 10000 * p.payload.reductions.items[ch]
                         <= settings.max_change_pct * p.allocations[ch]

\* under the default settings a persisted proposal cuts a channel by more
\* than max_change_pct, its budget_change_limit check recorded as passed
C5_Witness ==
    \E p \in ProposalRows :
        /\ settings = DefaultSettings
        /\ p.action_type = "budget_reallocation"
        /\ Len(p.checks) = 4
        /\ p.checks[3] = Check("budget_change_limit", TRUE)
        /\ \E ch \in DOMAIN p.payload.reductions.items :
              10000 * p.payload.reductions.items[ch]
                  > settings.max_change_pct * p.allocations[ch]

\* C6 as stated: in any one-hour window, ending when a proposal is created
\* and open at its old end, the campaign has at most max_per_hour proposals.
C6_AtMostMaxPerHour ==
    \A p \in ProposalRows :
        Cardinality({i \in DOMAIN proposals :
                        /\ proposals[i].created_at > p.created_at - TicksPerHour
                        /\ proposals[i].created_at <= p.created_at})
            <= settings.max_per_hour

\* one run persisted more proposals than max_per_hour, each with its
\* rate_limit check passed
C6_Witness ==
    \E r \in EngineResults :
        /\ Cardinality(r.created) > settings.max_per_hour
        /\ \A i \in r.created :
              proposals[i].checks[1] = Check("rate_limit", TRUE)

\* C7: a persisted proposal is auto_approved, approved by "engine" with
\* approved_at set, exactly when its calibrated confidence is at least the
\* auto-approve threshold; otherwise it is pending and unapproved.
C7_AutoApprovedIffConfident ==
    \A p \in ProposalRows :
        IF p.confidence >= OPTIMIZATION_AUTO_APPROVE_THRESHOLD
        THEN /\ p.status = "auto_approved"
             /\ p.approved_by = "engine"
             /\ p.approved_at = p.created_at
        ELSE /\ p.status = "pending"
             /\ p.approved_by = ""
             /\ p.approved_at = NoTime

\* proposals were routed on either side of the threshold and at it
C7_Witness ==
    /\ \E p \in ProposalRows :
          /\ p.confidence = OPTIMIZATION_AUTO_APPROVE_THRESHOLD
          /\ p.status = "auto_approved"
    /\ \E p \in ProposalRows :
          /\ p.confidence > OPTIMIZATION_AUTO_APPROVE_THRESHOLD
          /\ p.status = "auto_approved"
    /\ \E p \in ProposalRows :
          /\ p.confidence < OPTIMIZATION_AUTO_APPROVE_THRESHOLD
          /\ p.status = "pending"

----------------------------------------------------------------------------
(* Properties of the verifier *)

\* the learnings of proposal p whose verification_status is "verified"
VerifiedRows(p) ==
    {l \in learnings : l.proposal_id = p /\ l.verification_status = "verified"}

\* C9 as stated: however verify_proposal calls of the two sessions
\* interleave, a proposal has at most one learning with
\* verification_status "verified".
C9_OneVerifiedLearningPerProposal ==
    \A p \in DOMAIN proposals : Cardinality(VerifiedRows(p)) <= 1

\* two sessions, both past the window, each committed a verified learning
\* for the same proposal
C9_Witness ==
    \E v1, v2 \in verifications :
        /\ v1.session # v2.session
        /\ v1.proposal = v2.proposal
        /\ v1.success /\ v2.success
        /\ ~v1.idempotent /\ ~v2.idempotent
        /\ v1.learning_id # v2.learning_id

\* the verify_proposal calls a step starts
StartedVerifications ==
    {[proposal |-> v.proposal, session |-> v.session]
        : v \in {w \in verifications' \ verifications :
                    vcalls'[w.session] # vcalls[w.session]}}
    \cup {[proposal |-> vcall'[s].proposal, session |-> s]
          : s \in {t \in Sessions : vpc[t] = "idle" /\ vpc'[t] = "learn"}}

\* C10: a call of verify_proposal on a proposal that has a verified learning
\* returns success with that learning's id and idempotent=true, inserts no
\* learning and leaves the stats of every method as they were.
C10_SecondVerifyIsIdempotent ==
    [][\A c \in StartedVerifications :
          Cardinality(VerifiedRows(c.proposal)) = 1
          => /\ \E v \in verifications' \ verifications :
                    /\ v.session = c.session
                    /\ v.proposal = c.proposal
                    /\ v.success
                    /\ v.idempotent
                    /\ \E l \in VerifiedRows(c.proposal) :
                          l.id = v.learning_id
             /\ vpc'[c.session] = "idle"
             /\ learnings' = learnings
             /\ methods' = methods]_vars

\* a session wrote a verified learning, and its next call returned that
\* learning's id with idempotent=true
C10_Witness ==
    \E v1, v2 \in verifications :
        /\ v1.session = v2.session
        /\ v1.proposal = v2.proposal
        /\ v2.n = v1.n + 1
        /\ v1.success /\ ~v1.idempotent
        /\ v2.success /\ v2.idempotent
        /\ v2.learning_id = v1.learning_id
        /\ Cardinality(learnings) = 1
        /\ \E name \in DOMAIN methods : methods[name].total_executions = 1

----------------------------------------------------------------------------
(* Properties of the monitor *)

\* the proposals the engine run of a monitor cycle created
CreatedBy(m) == engine_results[m.run].created

\* pairs of cycles run one after the other with no snapshot added in
\* between, the second starting within the cooldown window of the first
BackToBack ==
    {i \in 1..(Len(monitor_runs) - 1) :
        /\ monitor_runs[i].snapshots = monitor_runs[i + 1].snapshots
        /\ monitor_runs[i + 1].started_at - monitor_runs[i].started_at
               < CooldownTicks}

----------------------------------------------------------------------------
(* Properties of the executor's dispatch *)

\* the steps in which the call of session s leaves the dispatch through the
\* except branch of execute_proposal
ExceptReturn(s) == pc[s] = "execute" /\ pc'[s] = "idle"

\* C14 as stated: when a call returns through the except branch, no
\* Execution row of its proposal is committed
C14_NoRowForThatProposal ==
    [][\A s \in Sessions :
          ExceptReturn(s) =>
              ~\E e \in executions' : e.proposal = call[s].proposal]_vars

\* C14: when a call returns through the except branch, its transaction is
\* rolled back, so that no Execution or ExecutionAction row of that call is
\* committed; the proposal is committed failed with an error result; and a
\* failure record is returned
C14_ExceptionRecordsFailure ==
    [][\A s \in Sessions :
          ExceptReturn(s) =>
              /\ executions' = executions
              /\ execution_actions' = execution_actions
              /\ uncommitted'[s] = NoExecution
              /\ tx_rows'[s] = {}
              /\ metric_rows' = metric_rows
              /\ proposals'[call[s].proposal].status = "failed"
              /\ proposals'[call[s].proposal].execution_result.kind = "error"
              /\ \E x \in returned' \ returned :
                    /\ x.session = s
                    /\ x.n = call[s].n
                    /\ ~x.success
                    /\ x.execution_id = NoId
                    /\ x.error \in {"NotImplementedError", "IntegrityError"}]_vars

\* a call has returned through the except branch after losing the insert to
\* a concurrent call, whose Execution row is committed
C14_Witness ==
    \E x \in returned :
        /\ x.error = "IntegrityError"
        /\ proposals[x.proposal].status = "failed"
        /\ proposals[x.proposal].execution_result.kind = "error"
        /\ \E e \in executions : e.proposal = x.proposal

\* the steps in which the call of session s dispatches a platform-class
\* action and returns without an exception
PlatformReturn(s) ==
    /\ pc[s] = "flushed"
    /\ pc'[s] = "idle"
    /\ proposals[call[s].proposal].action_type \in PLATFORM_ACTIONS

\* the adapter calls the call of session s issues in a step
IssuedBy(s) ==
    {c \in platform_calls' \ platform_calls :
        c.session = s /\ c.n = call[s].n}

\* C15: when a platform-class action is dispatched and returns without an
\* exception, the Execution is completed and the proposal executed if
\* every sub-action succeeded, both are failed otherwise; executed_at is set
\* either way and the record's success is that conjunction
C15_StatusIsConjunction ==
    [][\A s \in Sessions :
          PlatformReturn(s) =>
              LET p == call[s].proposal
                  every == \A c \in IssuedBy(s) : c.ok
              IN  /\ \E e \in executions' \ executions :
                        /\ e.id = uncommitted[s].id
                        /\ e.status = IF every THEN "completed" ELSE "failed"
                  /\ proposals'[p].status =
                         IF every THEN "executed" ELSE "failed"
                  /\ proposals'[p].executed_at = now
                  /\ proposals'[p].executed_at # NoTime
                  /\ \E x \in returned' \ returned :
                        /\ x.session = s
                        /\ x.n = call[s].n
                        /\ x.success = every]_vars

\* a platform-class action has returned with one sub-action succeeded and
\* another failed: Execution and proposal are failed, executed_at is set
C15_Witness ==
    \E e \in executions, c, d \in platform_calls :
        /\ c.proposal = e.proposal /\ d.proposal = e.proposal
        /\ c.session = d.session /\ c.n = d.n
        /\ c.ok /\ ~d.ok
        /\ e.status = "failed"
        /\ proposals[e.proposal].status = "failed"
        /\ proposals[e.proposal].executed_at # NoTime

\* C16: a budget_reallocation whose new_allocations has n channels issues
\* exactly n update_budget calls, the i-th on the i-th channel of the payload,
\* and records exactly n ExecutionAction rows, each completed or failed as
\* its own call went, whichever calls fail
C16_OneCallAndRowPerChannel ==
    [][\A s \in Sessions :
          (/\ PlatformReturn(s)
           /\ proposals[call[s].proposal].action_type = "budget_reallocation")
          =>
          LET p == call[s].proposal
              channels == Keys(proposals[p].payload.new_allocations.items)
              n == Len(channels)
              rows == {r \in execution_actions' \ execution_actions :
                          r.execution_id = uncommitted[s].id}
          IN  /\ Cardinality(IssuedBy(s)) = n
              /\ \A i \in 1..n :
                    \E c \in IssuedBy(s) :
                        /\ c.i = i
                        /\ c.op = "update_budget"
                        /\ c.channel = channels[i]
                        /\ \E r \in rows :
                              /\ r.channel = channels[i]
                              /\ r.action_type = "update_budget"
                              /\ r.status = IF c.ok THEN "completed"
                                            ELSE "failed"
              /\ Cardinality(rows) = n]_vars

\* a budget_reallocation over two channels whose first update_budget failed:
\* the second was still issued and succeeded, and both rows are recorded
C16_Witness ==
    \E c, d \in platform_calls :
        /\ c.session = d.session /\ c.n = d.n
        /\ c.op = "update_budget" /\ d.op = "update_budget"
        /\ c.i = 1 /\ ~c.ok
        /\ d.i = 2 /\ d.ok
        /\ \E e \in executions :
              /\ e.proposal = c.proposal
              /\ \E r \in execution_actions :
                    /\ r.execution_id = e.id
                    /\ r.channel = c.channel /\ r.status = "failed"
              /\ \E r \in execution_actions :
                    /\ r.execution_id = e.id
                    /\ r.channel = d.channel /\ r.status = "completed"

\* the action types execute_proposal dispatches
KnownActionTypes == {"budget_reallocation", "pause_channel", "resume_channel",
                     "creative_refresh"}

\* C17: a call on an approved proposal whose action_type is none of the four
\* known ones sets the proposal failed with the error "Unknown action_type",
\* returns success false, creates no Execution or ExecutionAction row and
\* makes no platform call
C17_UnknownActionTypeFails ==
    [][\A c \in StartedCalls :
          (/\ proposals[c.proposal].status \in ApprovedStatuses
           /\ proposals[c.proposal].action_type \notin KnownActionTypes)
          => /\ \E r \in returned' \ returned :
                    /\ r.session = c.session
                    /\ r.proposal = c.proposal
                    /\ ~r.success
                    /\ r.execution_id = NoId
                    /\ r.error = "Unknown action_type"
             /\ pc'[c.session] = "idle"
             /\ proposals'[c.proposal].status = "failed"
             /\ proposals'[c.proposal].execution_result.kind = "error"
             /\ executions' = executions
             /\ execution_actions' = execution_actions
             /\ platform_calls' = platform_calls
             /\ uncommitted' = uncommitted]_vars

\* an unforced call on an approved proposal of an unknown action_type has
\* returned: the proposal is failed and has no Execution row
C17_Witness ==
    \E r \in returned :
        /\ ~r.force
        /\ r.seen_status = "approved"
        /\ r.error = "Unknown action_type"
        /\ proposals[r.proposal].action_type \notin KnownActionTypes
        /\ proposals[r.proposal].status = "failed"
        /\ ~\E e \in executions : e.proposal = r.proposal

----------------------------------------------------------------------------
(* Properties of the verifier's timing check *)

\* C11: a call of verify_proposal on an executed proposal before the
\* verification window has elapsed returns the error "pending" and changes
\* nothing: no learning, no raw_metrics or derived_kpis row, flushed or
\* committed, and the method stats and the proposal are as they were
C11_PendingMutatesNothing ==
    [][\A c \in StartedVerifications :
          (/\ proposals[c.proposal].status = "executed"
           /\ proposals[c.proposal].executed_at # NoTime
           /\ now - proposals[c.proposal].executed_at
                 < OPTIMIZATION_VERIFICATION_DELAY_HOURS * TicksPerHour)
          => /\ \E v \in verifications' \ verifications :
                    /\ v.session = c.session
                    /\ v.proposal = c.proposal
                    /\ ~v.success
                    /\ v.error = "pending"
                    /\ v.learning_id = NoId
             /\ vpc'[c.session] = "idle"
             /\ learnings' = learnings
             /\ next_learning_id' = next_learning_id
             /\ metric_rows' = metric_rows
             /\ tx_rows' = tx_rows
             /\ methods' = methods
             /\ proposals' = proposals]_vars

\* a call on an executed proposal has returned pending half an hour after
\* the execution, with snapshots to measure and nothing measured or learned
C11_Witness ==
    \E v \in verifications :
        /\ v.error = "pending"
        /\ proposals[v.proposal].status = "executed"
        /\ now - proposals[v.proposal].executed_at = 1
        /\ snapshot_count > 0
        /\ metric_rows = {}
        /\ ~\E l \in learnings : l.proposal_id = v.proposal

----------------------------------------------------------------------------
(* Properties of the engine's failures *)

\* the registered methods that do not raise
OtherMethods == SelectSeq(registry, LAMBDA m : m # RaisingMethod)

\* C12: when a registered method raises during a run, the run still returns
\* an EngineResult, and every other registered method is evaluated: the
\* evaluations of theirs that fire all reach the guardrails
C12_RaisingMethodIsIsolated ==
    [][(/\ Len(engine_results') > Len(engine_results)
        /\ snapshot_count > 0
        /\ EvaluateAllRaises(registry))
       => LET r == engine_results'[Len(engine_results')]
          IN  /\ ~r.raised
              /\ Len(r.checked) = Len(EvaluationsOf(OtherMethods, ctx))]_vars

\* a run has raised out of DecisionEngine.run because of the raising method,
\* on data for which a default method fires: nothing was checked or created
C12_Witness ==
    /\ engine_results # <<>>
    /\ ingested = 0
    /\ EvaluateAllRaises(registry)
    /\ EvaluationsOf(OtherMethods, ctx) # <<>>
    /\ LET r == engine_results[Len(engine_results)]
       IN  /\ r.raised
           /\ r.error = "Exception"
           /\ r.checked = <<>>
           /\ r.created = {}
    /\ proposals = <<>>

\* C13: the rows of a run become durable at the run's final commit or not
\* at all: no row written by a run that raised before its commit is ever
\* committed, whatever commits on the same session afterwards
C13_RaisedRunLeavesNothing ==
    \A b \in metric_rows :
        b.by = "engine" => ~engine_results[b.id].raised

\* a run raised inside run_cycle after collecting its metrics, and the
\* MonitorRun commit of that cycle has made the run's metric rows durable
C13_Witness ==
    \E m \in DOMAIN monitor_runs :
        /\ engine_results[monitor_runs[m].run].raised
        /\ engine_results[monitor_runs[m].run].error = "Exception"
        /\ ~monitor_runs[m].engine_summary.present
        /\ \E b \in metric_rows :
              /\ b.by = "engine"
              /\ b.id = monitor_runs[m].run
              /\ b.raw_metrics > 0

----------------------------------------------------------------------------
(* Properties of the monitor's phases *)

C19_OneMonitorRunPerCycle ==
    Len(monitor_runs) = Len(monitor_calls)

\* a run_cycle call has raised without a MonitorRun row: its engine run met
\* an IntegrityError at a flush, the two later phases failed as well, and
\* the final commit raised
C19_Witness ==
    \E k \in DOMAIN monitor_calls :
        /\ monitor_calls[k].raised
        /\ monitor_calls[k].errors = 3
        /\ engine_results[monitor_calls[k].run].error = "IntegrityError"
        /\ ~\E m \in DOMAIN monitor_runs :
              monitor_runs[m].run = monitor_calls[k].run

\* C20: the status of a MonitorRun row is failed when the engine phase
\* produced an error and the engine did not return success (it raised, or
\* returned success false with errors), and it is completed or partial only
\* when the engine returned success
C20_StatusFollowsEngine ==
    \A m \in DOMAIN monitor_runs :
        LET r == engine_results[monitor_runs[m].run]
            succeeded == ~r.raised /\ r.success
            errored == r.raised \/ r.error # ""
        IN  /\ (errored /\ ~succeeded) => monitor_runs[m].status = "failed"
            /\ monitor_runs[m].status \in {"completed", "partial"}
                   => succeeded

\* a cycle for a campaign without snapshots: the engine returned success
\* false with an error, and the MonitorRun row is completed
C20_Witness ==
    \E m \in DOMAIN monitor_runs :
        /\ monitor_runs[m].status = "completed"
        /\ monitor_runs[m].snapshots = 0
        /\ monitor_runs[m].engine_summary.present
        /\ ~monitor_runs[m].engine_summary.success
        /\ engine_results[monitor_runs[m].run].error
              = "No channel snapshots available"

\* C21: a failure of one phase of run_cycle is recorded in result.errors and
\* skips no later phase: every call whose engine phase raised or returned
\* success false ends with at least one error recorded
C21_PhaseFailureIsRecorded ==
    \A k \in DOMAIN monitor_calls :
        LET r == engine_results[monitor_calls[k].run]
        IN  (r.raised \/ ~r.success) => monitor_calls[k].errors >= 1

\* a run_cycle call has returned for a campaign without snapshots: its
\* engine phase returned success false, the two later phases ran, and
\* result.errors is empty
C21_Witness ==
    \E k \in DOMAIN monitor_calls :
        /\ ~monitor_calls[k].raised
        /\ monitor_calls[k].errors = 0
        /\ ~engine_results[monitor_calls[k].run].raised
        /\ ~engine_results[monitor_calls[k].run].success
        /\ engine_results[monitor_calls[k].run].snapshot_count = 0
        /\ \E m \in DOMAIN monitor_runs :
              /\ monitor_runs[m].run = monitor_calls[k].run
              /\ ~monitor_runs[m].execution_summary.present

----------------------------------------------------------------------------
(* Properties of the cycle's order *)

\* the records execute_batch has collected in the cycle in progress
CycleRecords ==
    {x \in returned : x.session = MonitorSession /\ x.n > cycle.calls_before}

\* the proposals the cycle in progress has executed
ExecutedInCycle ==
    {p \in DOMAIN proposals :
        /\ proposals[p].status = "executed"
        /\ \E x \in CycleRecords : x.proposal = p /\ x.success}

\* the engine run of a cycle finishes before the executor is called, and
\* every execution finishes before a verification starts
PhasesInOrder ==
    /\ engine_results' # engine_results
       => mpc = "idle" /\ pc[MonitorSession] = "idle"
                       /\ vpc[MonitorSession] = "idle"
    /\ (calls' # calls \/ pc' # pc)
       => mpc = "executing" /\ vpc[MonitorSession] = "idle"
    /\ (vcalls' # vcalls \/ vpc' # vpc)
       => mpc = "verifying" /\ pc[MonitorSession] = "idle" /\ batch = <<>>

\* the proposals the cycle's own engine run auto-approved are in the batch
\* the act phase selects, and the executor has returned a record for each
\* when the verify phase starts
HandedToExecutor ==
    LET own == {p \in engine_results[cycle.run].created :
                   proposals[p].approved_by = "engine"}
    IN  /\ (mpc = "act" /\ mpc' = "executing")
           => /\ own \subseteq SeqToSet(batch')
              /\ \A p \in own : proposals[p].status = "auto_approved"
        /\ (mpc = "executing" /\ mpc' = "verifying")
           => \A p \in own : \E x \in CycleRecords : x.proposal = p

\* what verify_batch has reported in the cycle in progress for proposal p
ReportedInCycle(p) ==
    {v \in verifications : /\ v.session = MonitorSession
                           /\ v.n > cycle.vcalls_before
                           /\ v.proposal = p}

\* C22 as stated: the phases of a cycle run in order, a proposal the cycle's
\* engine run auto-approved is handed to the executor in the same cycle, and
\* the cycle's verify phase reports every proposal executed in the cycle as
\* pending, never as verified.
C22_ExecutedInCycleIsPending ==
    [][/\ PhasesInOrder
       /\ HandedToExecutor
       /\ (mpc = "verifying" /\ mpc' = "idle")
          => \A p \in ExecutedInCycle :
                /\ ReportedInCycle(p) # {}
                /\ \A v \in ReportedInCycle(p) :
                      v.error = "pending" /\ ~v.success]_vars

\* max_age_hours of the monitor's verify_batch, in ticks
MaxAgeTicks == VERIFY_MAX_AGE_HOURS * TicksPerHour

\* C22: the phases of a cycle run in order, a proposal the cycle's engine
\* run auto-approved is handed to the executor in the same cycle, and the
\* cycle's verify phase visits every proposal executed in the cycle that is
\* not older than max_age_hours when the phase ends, and reports it pending
\* if it visits it less than the verification window after its execution.
C22_ExecutedInCycleIsPendingWithinWindow ==
    [][/\ PhasesInOrder
       /\ HandedToExecutor
       /\ (mpc = "verifying" /\ mpc' = "idle")
          => \A p \in ExecutedInCycle :
                /\ now - proposals[p].executed_at <= MaxAgeTicks
                   => ReportedInCycle(p) # {}
                /\ now - proposals[p].executed_at < VerificationTicks
                   => \A v \in ReportedInCycle(p) :
                         v.error = "pending" /\ ~v.success]_vars

\* a cycle is about to write its MonitorRun row: its engine run created an
\* auto-approved proposal, the act phase executed it and the verify phase
\* reported it pending
C22_Witness ==
    /\ mpc = "verifying"
    /\ vbatch = <<>>
    /\ \E p \in engine_results[cycle.run].created :
          /\ proposals[p].approved_by = "engine"
          /\ p \in ExecutedInCycle
          /\ proposals[p].executed_at >= cycle.started_at
          /\ \E v \in ReportedInCycle(p) : v.error = "pending"

----------------------------------------------------------------------------
(* Properties of the methods' stats *)

\* the verified learnings of the method named name
LearningsOf(name) ==
    {l \in learnings : l.method = name /\ l.verification_status = "verified"}

\* C23: with one verify_proposal call at a time, every method row's
\* total_executions is the number of verified learnings of the method and
\* its successful_executions the number of those that score 0.5 or more,
\* and no proposal has more than one verified learning.
C23_StatsCountLearnings ==
    /\ \A name \in DOMAIN methods :
          /\ methods[name].total_executions = Cardinality(LearningsOf(name))
          /\ methods[name].successful_executions
                = Cardinality({l \in LearningsOf(name) :
                                  l.accuracy_score >= 5000})
    /\ \A p \in DOMAIN proposals : Cardinality(VerifiedRows(p)) <= 1

\* two proposals of one method were verified, one scoring below 0.5, and a
\* third call found one of them verified already
C23_Witness ==
    /\ NoVerifyInProgress
    /\ \E name \in DOMAIN methods :
          /\ methods[name].total_executions = 2
          /\ methods[name].successful_executions = 1
          /\ \E l1, l2 \in LearningsOf(name) :
                /\ l1.proposal_id # l2.proposal_id
                /\ l1.accuracy_score < 5000
                /\ l2.accuracy_score >= 5000
    /\ \E v \in verifications : v.idempotent

\* the sum of the accuracy scores of the learnings in rows
RECURSIVE SumOfScores(_)
SumOfScores(rows) ==
    IF rows = {} THEN 0
    ELSE LET l == CHOOSE x \in rows : TRUE
         IN  l.accuracy_score + SumOfScores(rows \ {l})

\* C24 as stated: every method's avg_accuracy lies in [0,1] and is the
\* arithmetic mean of the scores of its verified learnings, to the four
\* decimals it is stored with.
C24_AverageIsTheMean ==
    \A name \in DOMAIN methods :
        LET count == Cardinality(LearningsOf(name))
            sum == SumOfScores(LearningsOf(name))
        IN  /\ methods[name].avg_accuracy \in 0..10000
            /\ 2 * Abs(count * methods[name].avg_accuracy - sum) <= count

\* C24: every method's avg_accuracy lies in [0,1] and, for a method with n
\* verified learnings, differs from the arithmetic mean of their scores by
\* at most n + 1 quarters of 0.0001, which is what the rounding of every
\* step of the running update can add up to.
C24_AverageNearTheMean ==
    \A name \in DOMAIN methods :
        LET count == Cardinality(LearningsOf(name))
            sum == SumOfScores(LearningsOf(name))
        IN  /\ methods[name].avg_accuracy \in 0..10000
            /\ methods[name].total_executions = count
            /\ 4 * Abs(count * methods[name].avg_accuracy - sum)
                  <= count * (count + 1)

\* three proposals of one method were verified with the scores 0.3333, 1.0
\* and 1.0: the running update has left 0.7777, the mean is 0.77777
C24_Witness ==
    /\ NoVerifyInProgress
    /\ \E name \in DOMAIN methods :
          /\ Cardinality(LearningsOf(name)) = 3
          /\ SumOfScores(LearningsOf(name)) = 23333
          /\ methods[name].avg_accuracy = 7777

\* C25: when two sessions have each verified a proposal of the same method,
\* the method's total_executions has grown by two, and both scores are
\* counted in successful_executions and averaged in avg_accuracy.
C25_ConcurrentUpdatesSerialize ==
    \A name \in DOMAIN methods :
        LET rows == LearningsOf(name)
        IN  (/\ Cardinality(rows) = 2
             /\ Cardinality({l.proposal_id : l \in rows}) = 2)
            => /\ methods[name].total_executions = 2
               /\ methods[name].successful_executions
                     = Cardinality({l \in rows : l.accuracy_score >= 5000})
               /\ Abs(2 * methods[name].avg_accuracy - SumOfScores(rows)) <= 1

\* two sessions have each verified a different proposal of one method and
\* both have committed their learning: the method row counts one execution
C25_Witness ==
    /\ NoVerifyInProgress
    /\ \E name \in DOMAIN methods :
          /\ methods[name].total_executions = 1
          /\ \E l1, l2 \in LearningsOf(name) :
                /\ l1.proposal_id # l2.proposal_id
                /\ \E v1, v2 \in verifications :
                      /\ v1.session # v2.session
                      /\ v1.learning_id = l1.id
                      /\ v2.learning_id = l2.id
                      /\ ~v1.idempotent
                      /\ ~v2.idempotent

----------------------------------------------------------------------------
(* Properties of the monitor's verification window *)

\* the proposals that are executed, with the time of their execution
ExecutedProposals ==
    {p \in DOMAIN proposals : /\ proposals[p].status = "executed"
                              /\ proposals[p].executed_at # NoTime}

\* the step is the return of a run_cycle call
CycleReturns == mpc = "verifying" /\ Len(monitor_runs') = Len(monitor_runs) + 1

\* the cycle in progress has created a learning for proposal p
LearnedInCycle(p) ==
    \E v \in ReportedInCycle(p) : v.success /\ ~v.idempotent

\* C26 as stated: when a cycle returns that was invoked between 24 and 48
\* hours after the execution of a proposal, the proposal has exactly one
\* verified learning, and a cycle invoked less than 24 hours after the
\* execution has created none for it; the proposals are those executed
\* before the cycle was invoked.
C26_VerifiedByInvocationTime ==
    [][CycleReturns
       => \A p \in ExecutedProposals \ ExecutedInCycle :
             LET age == cycle.started_at - proposals[p].executed_at
             IN  /\ age \in VerificationTicks..MaxAgeTicks
                    => Cardinality(VerifiedRows(p)) = 1
                 /\ age \in 0..(VerificationTicks - 1)
                    => ~LearnedInCycle(p)]_vars

\* C26: the verify phase of a cycle visits every executed proposal whose
\* execution lies at most 48 hours before the time verify_batch reads, and
\* no other; a visit made 24 hours or more after the execution finds the
\* proposal's learning or goes on to create one, an earlier visit reports
\* pending; and when the cycle returns, every proposal it reported verified
\* has exactly one verified learning and every proposal it reported pending
\* has none.
C26_VerifiedByVisitTime ==
    [][/\ (mpc = "executing" /\ mpc' = "verifying"
             /\ ~tx_invalid[MonitorSession])
          => SeqToSet(vbatch')
                = {p \in ExecutedProposals :
                      now - proposals[p].executed_at <= MaxAgeTicks}
       /\ \A c \in StartedVerifications :
             (c.session = MonitorSession /\ c.proposal \in ExecutedProposals)
             => LET p == c.proposal
                    done == verifications' \ verifications
                IN  IF now - proposals[p].executed_at >= VerificationTicks
                    THEN IF VerifiedRows(p) = {}
                         THEN vpc'[MonitorSession] = "learn" /\ done = {}
                         ELSE \A v \in done : v.success /\ v.idempotent
                    ELSE /\ vpc'[MonitorSession] = "idle"
                         /\ \A v \in done : v.error = "pending"
       /\ CycleReturns
          => \A p \in ExecutedProposals :
                \A v \in ReportedInCycle(p) :
                    /\ v.success => Cardinality(VerifiedRows(p)) = 1
                    /\ v.error = "pending" => VerifiedRows(p) = {}]_vars

\* a cycle is about to return that was started 24 hours after an earlier
\* cycle executed a proposal: its verify phase has created the proposal's
\* one verified learning
C26_Witness ==
    /\ mpc = "verifying"
    /\ vbatch = <<>>
    /\ vpc[MonitorSession] = "idle"
    /\ ~tx_invalid[MonitorSession]
    /\ \E p \in ExecutedProposals :
          /\ cycle.started_at - proposals[p].executed_at = VerificationTicks
          /\ LearnedInCycle(p)
          /\ Cardinality(VerifiedRows(p)) = 1

----------------------------------------------------------------------------
(* Properties of the engine's preconditions *)

\* C27: a run on a campaign with zero snapshots returns success false with
\* the error "No channel snapshots available for this campaign", raises
\* nothing, and writes no raw metric, KPI, trend, method or proposal row,
\* flushed or committed.
C27_NoSnapshotsMutatesNothing ==
    [][(Len(engine_results') = Len(engine_results) + 1 /\ snapshot_count = 0)
       => LET r == engine_results'[Len(engine_results')]
          IN  /\ ~r.success
              /\ ~r.raised
              /\ r.error = "No channel snapshots available"
              /\ r.created = {}
              /\ r.checked = <<>>
              /\ proposals' = proposals
              /\ methods' = methods
              /\ metric_rows' = metric_rows
              /\ tx_rows' = tx_rows
              /\ tx_invalid' = tx_invalid]_vars

\* a run has returned for a campaign without snapshots, and another for the
\* same campaign once a snapshot had arrived, which wrote metric rows
C27_Witness ==
    \E i, j \in DOMAIN engine_results :
        /\ i < j
        /\ engine_results[i].snapshot_count = 0
        /\ engine_results[i].error = "No channel snapshots available"
        /\ engine_results[j].snapshot_count > 0
        /\ engine_results[j].success
        /\ \E b \in metric_rows : b.by = "engine" /\ b.id = j
        /\ ~\E b \in metric_rows : b.by = "engine" /\ b.id = i

----------------------------------------------------------------------------
(* Properties of the proposal lifecycle *)

\* the edges of the lifecycle: approval and rejection of a pending proposal,
\* execution of an approved one
LifecycleEdges ==
    {<<"pending", "approved">>, <<"pending", "rejected">>,
     <<"approved", "executed">>, <<"approved", "failed">>,
     <<"auto_approved", "executed">>, <<"auto_approved", "failed">>}

\* C28: the status of a proposal changes along the edges of the lifecycle
\* only, and a proposal is created pending or auto_approved; so that the
\* approval endpoint leaves the status of a proposal that is executed,
\* failed, rejected, approved or auto_approved as it is.
C28_StatusFollowsLifecycle ==
    [][/\ \A p \in DOMAIN proposals :
             proposals'[p].status # proposals[p].status
             => <<proposals[p].status, proposals'[p].status>> \in LifecycleEdges
       /\ \A p \in DOMAIN proposals' \ DOMAIN proposals :
             proposals'[p].status \in {"pending", "auto_approved"}]_vars

\* a proposal the monitor executed, with its Execution row, has been
\* rejected by the operator afterwards
C28_Witness ==
    \E p \in DOMAIN proposals :
        /\ proposals[p].status = "rejected"
        /\ proposals[p].approved_by = "operator"
        /\ proposals[p].executed_at # NoTime
        /\ proposals[p].approved_at >= proposals[p].executed_at
        /\ \E e \in executions : e.proposal = p /\ e.status = "completed"

----------------------------------------------------------------------------
(* Properties of the audit rows *)

\* C29: every ExecutionAction row has an action_type among create_campaign,
\* update_budget, pause_campaign and resume_campaign and a status among
\* pending, completed and failed, and every Execution row, flushed or
\* committed, has a status among pending, running, completed, failed and
\* paused.
C29_RowsWithinEnumerations ==
    /\ \A r \in execution_actions :
          /\ r.action_type \in {"create_campaign", "update_budget",
                                "pause_campaign", "resume_campaign"}
          /\ r.status \in {"pending", "completed", "failed"}
    /\ \A e \in (executions \cup {uncommitted[s] : s \in Sessions})
                   \ {NoExecution} :
          e.status \in {"pending", "running", "completed", "failed", "paused"}

\* an advisory proposal was executed: its Execution row is completed on the
\* platform "advisory", and its one ExecutionAction row carries the
\* proposal's action_type, creative_refresh
C29_Witness ==
    \E e \in executions, r \in execution_actions :
        /\ e.platform = "advisory"
        /\ e.status = "completed"
        /\ r.execution_id = e.id
        /\ r.action_type = "creative_refresh"
        /\ r.status = "completed"
        /\ proposals[e.proposal].status = "executed"


----------------------------------------------------------------------------
(* Properties of the guardrail checks *)

\* the proposals that existed when run i of the engine read them
ProposalsBeforeRun(i) ==
    DOMAIN proposals
        \ UNION {engine_results[j].created : j \in i .. Len(engine_results)}

\* the last_fired_at that run i handed to check_cooldown for action_type
LastFiredAtRun(i, action_type) ==
    LET fired == {proposals[p].created_at :
                    p \in {q \in ProposalsBeforeRun(i) :
                             proposals[q].action_type = action_type}}
    IN  IF fired = {} THEN NoTime ELSE MaxOf(fired)

\* the recent_times that run i handed to check_rate_limit
RecentTimesAtRun(i) ==
    SelectSeq([p \in 1 .. Cardinality(ProposalsBeforeRun(i)) |->
                  proposals[p].created_at],
              LAMBDA t : t >= engine_results[i].at - TicksPerHour)

\* C30: a guardrail check is a function of its arguments alone: two runs of
\* the engine that hand check_rate_limit the same recent_times, or
\* check_cooldown the same method and the same last_fired_at, get the same
\* passed verdict, whatever the clock reads when each call is made.
C30_SameArgumentsSameVerdict ==
    \A i, j \in DOMAIN engine_results :
        \A k \in DOMAIN engine_results[i].checked :
            \A l \in DOMAIN engine_results[j].checked :
                LET x == engine_results[i].checked[k]
                    y == engine_results[j].checked[l]
                IN  /\ RecentTimesAtRun(i) = RecentTimesAtRun(j)
                        => x.checks[1].passed = y.checks[1].passed
                    /\ (/\ x.action_type = y.action_type
                        /\ LastFiredAtRun(i, x.action_type)
                               = LastFiredAtRun(j, y.action_type))
                        => x.checks[2].passed = y.checks[2].passed

\* two runs handed check_cooldown the same method and the same last_fired_at
\* at different times: the earlier call blocked, the later one passed
C30_Witness ==
    \E i, j \in DOMAIN engine_results :
        /\ engine_results[i].at < engine_results[j].at
        /\ \E k \in DOMAIN engine_results[i].checked :
              \E l \in DOMAIN engine_results[j].checked :
                  LET x == engine_results[i].checked[k]
                      y == engine_results[j].checked[l]
                  IN  /\ x.action_type = y.action_type
                      /\ LastFiredAtRun(i, x.action_type) # NoTime
                      /\ LastFiredAtRun(i, x.action_type)
                             = LastFiredAtRun(j, y.action_type)
                      /\ ~x.checks[2].passed
                      /\ y.checks[2].passed


----------------------------------------------------------------------------
(* Properties of the platform adapters *)

\* the create_campaign calls made on the DryRunExecutor, by position
DryRunCalls == {i \in DOMAIN create_calls : create_calls[i].adapter = "dry_run"}

\* a plan without an error-severity issue for the DryRunExecutor
ValidForDryRun(plan) == Errors(DryRunExecutor_validate_plan(plan)) = <<>>

\* C31: on one DryRunExecutor, every create_campaign call made with a valid
\* plan and a key that an earlier call with a valid plan used returns the
\* external_campaign_id that the first call with that key returned.
C31_RepeatedCallsSameId ==
    \A i, j \in DryRunCalls :
        (/\ i < j
         /\ create_calls[i].key = create_calls[j].key
         /\ ValidForDryRun(create_calls[i].plan)
         /\ ValidForDryRun(create_calls[j].plan))
        => create_calls[j].result.external_campaign_id
               = create_calls[i].result.external_campaign_id

\* the same valid plan was sent twice with one key: both calls succeeded,
\* the second as an idempotent replay, and the two ids differ
C31_Witness ==
    \E i, j \in DryRunCalls :
        /\ i < j
        /\ create_calls[i].key = create_calls[j].key
        /\ create_calls[i].plan = create_calls[j].plan
        /\ ValidForDryRun(create_calls[i].plan)
        /\ create_calls[i].result.success
        /\ create_calls[j].result.success
        /\ create_calls[j].result.note = "idempotent_replay"
        /\ create_calls[j].result.external_campaign_id
               # create_calls[i].result.external_campaign_id


\* validate_plan of the adapter a call was made on
IssuesOf(c) ==
    IF c.adapter = "dry_run" THEN DryRunExecutor_validate_plan(c.plan)
    ELSE MetaAdsAdapter_validate_plan(c.plan)

\* the call the step has made
LastCreateCall == create_calls'[Len(create_calls')]

\* C32: a create_campaign call of either adapter whose plan has an
\* error-severity issue returns success=false with the validation issues
\* and creates nothing, neither an object on the platform nor an entry of
\* the idempotency cache, whatever calls were made with its key before.
C32_InvalidPlanCreatesNothing ==
    [][(/\ Len(create_calls') = Len(create_calls) + 1
        /\ Errors(IssuesOf(LastCreateCall)) # <<>>)
       => /\ ~LastCreateCall.result.success
          /\ LastCreateCall.result.validation_issues = IssuesOf(LastCreateCall)
          /\ _created' = _created
          /\ meta_objects' = meta_objects]_vars

\* the DryRunExecutor answered a plan that has an error-severity issue with
\* success, because an earlier call with a valid plan had used the key
C32_Witness ==
    \E i, j \in DryRunCalls :
        /\ i < j
        /\ create_calls[i].key = create_calls[j].key
        /\ ValidForDryRun(create_calls[i].plan)
        /\ Errors(IssuesOf(create_calls[j])) # <<>>
        /\ create_calls[j].result.success
        /\ create_calls[j].result.validation_issues = <<>>


----------------------------------------------------------------------------
(* Properties of the agent loop *)

\* the runs of tools registered with requires_approval, by position
ApprovalRuns ==
    {i \in DOMAIN tool_runs : RequiresApproval[tool_runs[i].tool_name]}

\* the step stores a tool call as the session's pending call
StoresPending ==
    /\ agent_session'.pending # NoPending
    /\ agent_session'.pending # agent_session.pending

\* C33: a tool registered with requires_approval runs only after an
\* approving decision: the loop stores the call and leaves the session
\* awaiting_approval without running it, and the tool runs only in
\* resume_after_approval with approved=true, for the decision of the stored
\* call, and at most once for a stored call.
C33_ApprovalToolRunsOnceApproved ==
    [][/\ StoresPending
          => /\ agent_session'.status = "awaiting_approval"
             /\ RequiresApproval[agent_session'.pending.tool_name]
             /\ \A i \in DOMAIN tool_runs' :
                   tool_runs'[i].call # agent_session'.pending.decision_id
       /\ \A i \in DOMAIN tool_runs' :
             RequiresApproval[tool_runs'[i].tool_name]
             => /\ tool_runs'[i].via = "resume"
                /\ tool_runs'[i].approved
                /\ tool_runs'[i].decision = tool_runs'[i].call
                /\ \A j \in DOMAIN tool_runs' :
                      tool_runs'[j].call = tool_runs'[i].call => j = i]_vars

\* one stored call of a tool that requires approval was run twice, each
\* time by resume_after_approval with approved=true
C33_Witness ==
    \E i, j \in ApprovalRuns :
        /\ i < j
        /\ tool_runs[i].call = tool_runs[j].call
        /\ tool_runs[i].via = "resume" /\ tool_runs[i].approved
        /\ tool_runs[j].via = "resume" /\ tool_runs[j].approved


\* max_steps of the session that was started, 0 before any
StartedMaxSteps ==
    IF agent_session.status # "none" THEN agent_session.max_steps
    ELSE IF agent_req["A"].pc # "idle" THEN agent_req["A"].session.max_steps
    ELSE agent_req["B"].session.max_steps

\* C34: the loop of a session makes at most max_steps model calls in total,
\* over run and every resume_after_approval, and a session that ends on the
\* step limit is completed with note max_steps_reached and current_step
\* equal to max_steps.
C34_AtMostMaxStepsModelCalls ==
    /\ model_calls <= StartedMaxSteps
    /\ agent_session.current_step <= agent_session.max_steps
    /\ agent_session.note = "max_steps_reached"
       => /\ agent_session.status = "completed"
          /\ agent_session.current_step = agent_session.max_steps

\* a session started with max_steps = 1 was resumed after an approval and
\* the model was called again: current_step has passed max_steps
C34_Witness ==
    /\ agent_session.max_steps = 1
    /\ agent_session.current_step > agent_session.max_steps
    /\ model_calls = agent_session.current_step
    /\ \E i \in ApprovalRuns : tool_runs[i].via = "resume"

----------------------------------------------------------------------------
(* Properties of racing and replayed executions *)

\* the pairs (winner, loser) of calls of two sessions on one proposal that
\* both loaded it approved or auto-approved, the first of which returned
\* the Execution it committed with every sub-action succeeding
RacedCalls ==
    {x \in returned \X returned :
        /\ x[1].session # x[2].session
        /\ x[1].proposal = x[2].proposal
        /\ x[1].seen_status \in ApprovedStatuses
        /\ x[2].seen_status \in ApprovedStatuses
        /\ x[1].success
        /\ \E e \in executions :
              e.id = x[1].execution_id /\ e.status = "completed"}

\* C35: when two calls of execute_proposal race on an approved proposal in
\* separate sessions and one completes its execution with every sub-action
\* succeeding, the committed proposal is executed and its execution_result
\* is that execution's: the loser of the unique-key race does not overwrite
\* it with failed.
C35_LoserKeepsExecuted ==
    \A x \in RacedCalls :
        /\ proposals[x[1].proposal].status = "executed"
        /\ proposals[x[1].proposal].execution_result.execution_id
              = x[1].execution_id
        /\ proposals[x[1].proposal].execution_result.success

\* the winner returned its completed Execution, the loser returned the
\* IntegrityError of the flush, and the committed proposal is failed with
\* the error as its execution_result
C35_Witness ==
    \E x \in RacedCalls :
        /\ x[2].error = "IntegrityError"
        /\ \A s \in Sessions : pc[s] = "idle"
        /\ proposals[x[1].proposal].status = "failed"
        /\ proposals[x[1].proposal].execution_result.kind = "error"

\* C36: a forced call of execute_proposal on a proposal whose Execution is
\* already committed returns success with the id of that Execution and
\* leaves the Execution rows, the ExecutionAction rows, the proposal and the
\* platform untouched, also when the stored Execution and the proposal are
\* failed: failed sub-actions are not retried.
C36_ReplayReturnsStoredExecution ==
    [][\A c \in StartedCalls :
          \A e \in executions :
              (c.force /\ e.idempotency_key = IdempotencyKey(c.proposal))
              => /\ \E r \in returned' \ returned :
                        /\ r.session = c.session
                        /\ r.proposal = c.proposal
                        /\ r.success
                        /\ r.execution_id = e.id
                 /\ pc'[c.session] = "idle"
                 /\ proposals' = proposals
                 /\ executions' = executions
                 /\ execution_actions' = execution_actions
                 /\ platform_calls' = platform_calls
                 /\ uncommitted' = uncommitted]_vars

\* a forced call on a failed proposal returned success with the id of its
\* failed Execution, one of whose sub-actions failed, and both rows are
\* still failed
C36_Witness ==
    \E r \in returned, e \in executions :
        /\ r.force
        /\ r.seen_status = "failed"
        /\ r.success
        /\ r.execution_id = e.id
        /\ e.status = "failed"
        /\ e.proposal = r.proposal
        /\ proposals[r.proposal].status = "failed"
        /\ \E a \in execution_actions :
              a.execution_id = e.id /\ a.status = "failed"

\* the ExecutionAction rows of the Executions of proposal p
ActionsOf(p) ==
    {a \in execution_actions :
        \E e \in executions : e.proposal = p /\ e.id = a.execution_id}

\* C37: every proposal with a platform action_type whose committed status
\* is executed has at least one ExecutionAction row.
C37_ExecutedPlatformProposalHasAction ==
    \A p \in DOMAIN proposals :
        (proposals[p].action_type \in PLATFORM_ACTIONS
            /\ proposals[p].status = "executed")
        => ActionsOf(p) # {}

\* a budget_reallocation proposal whose payload carries reductions and no
\* new_allocations is executed, its Execution is completed, and there is no
\* ExecutionAction row and no platform call for it
C37_Witness ==
    \E p \in DOMAIN proposals :
        /\ proposals[p].action_type = "budget_reallocation"
        /\ DOMAIN proposals[p].payload.reductions.items # {}
        /\ Len(Keys(proposals[p].payload.new_allocations.items)) = 0
        /\ proposals[p].status = "executed"
        /\ \E e \in executions : e.proposal = p /\ e.status = "completed"
        /\ ActionsOf(p) = {}
        /\ \A c \in platform_calls : c.proposal # p

\* expires_at of proposal p: its creation time plus 24 hours
expires_at(p) == proposals[p].created_at + 24 * TicksPerHour

\* C38: a proposal whose expires_at has passed is never executed by a call
\* of execute_proposal without force: no Execution is flushed for it and
\* its executed_at is never later than its expires_at.
C38_NoExecutionAfterExpiry ==
    /\ \A s \in Sessions :
          pc[s] = "flushed" => now <= expires_at(call[s].proposal)
    /\ \A p \in DOMAIN proposals :
          proposals[p].executed_at # NoTime
          => proposals[p].executed_at <= expires_at(p)

\* an approved or auto-approved proposal was executed by an unforced call
\* more than 24 hours after it was created
C38_Witness ==
    \E r \in returned :
        /\ ~r.force
        /\ r.seen_status \in ApprovedStatuses
        /\ r.success
        /\ proposals[r.proposal].status = "executed"
        /\ proposals[r.proposal].execution_result.execution_id = r.execution_id
        /\ proposals[r.proposal].executed_at > expires_at(r.proposal)

\* C39: the cooldown check rejects an evaluation only if the method that
\* produced it created a proposal less than cooldown_minutes before the run:
\* a recent proposal of another method never puts a method into cooldown.
C39_CooldownOnlyFromSameMethod ==
    \A i \in DOMAIN engine_results :
        \A k \in DOMAIN engine_results[i].checked :
            LET x == engine_results[i].checked[k]
            IN  ~x.checks[2].passed
                => \E p \in ProposalsBeforeRun(i) :
                      /\ proposals[p].method = x.method
                      /\ engine_results[i].at - proposals[p].created_at
                             < CooldownTicks

\* the cooldown rejected an evaluation of a method that had never created a
\* proposal, because the cpa_spike method had created one of the same
\* action_type within the cooldown
C39_Witness ==
    \E i \in DOMAIN engine_results :
        \E k \in DOMAIN engine_results[i].checked :
            LET x == engine_results[i].checked[k]
            IN  /\ x.method = SharedActionMethod
                /\ ~x.checks[2].passed
                /\ \A p \in ProposalsBeforeRun(i) :
                      proposals[p].method # x.method
                /\ \E p \in ProposalsBeforeRun(i) :
                      /\ proposals[p].method = "cpa_spike"
                      /\ proposals[p].action_type = x.action_type
                      /\ engine_results[i].at - proposals[p].created_at
                             < CooldownTicks

----------------------------------------------------------------------------
(* Properties of verify_batch *)

\* the executed proposals whose executed_at is not before now - max_age_hours
WithinMaxAge ==
    {p \in DOMAIN proposals :
        /\ proposals[p].status = "executed"
        /\ proposals[p].executed_at # NoTime
        /\ proposals[p].executed_at >= now - MaxAgeTicks}

\* C40: the total of every verify_batch result is the number of executed
\* proposals whose executed_at is not before now - max_age_hours, and it is
\* the sum of verified, pending and failed.
C40_TotalCountsVerifiedProposals ==
    /\ \A i \in DOMAIN monitor_runs :
          LET v == monitor_runs[i].verification_summary
          IN  v.total = v.verified + v.pending + v.failed
    /\ (mpc = "verifying" /\ cycle.errors = 0 /\ vbatch # <<>>)
          => cycle.ver_total = Cardinality(WithinMaxAge)

\* a cycle whose verify_batch left out a proposal executed more than
\* max_age_hours before: its total counts the proposal, and no record was
\* returned for it
C40_Witness ==
    \E i \in DOMAIN monitor_runs :
        LET v == monitor_runs[i].verification_summary
        IN  /\ v.total > v.verified + v.pending + v.failed
            /\ v.verified + v.pending + v.failed > 0
            /\ \E p \in DOMAIN proposals :
                  /\ proposals[p].status = "executed"
                  /\ proposals[p].executed_at
                         < monitor_runs[i].started_at - MaxAgeTicks

====
